---- MODULE Spec2Model ----
(***************************************************************************)
(* Lambda layer publisher of custom-collector-extension-layers.            *)
(*                                                                         *)
(* Two revisions of the publisher live in the repository:                  *)
(*   "tools"   src/tools/scripts/lambda_layer_publisher.py (boto3 client)  *)
(*   "scripts" src/scripts/lambda_layer_publisher.py       (aws CLI)       *)
(* The variable `revision` says which one the processes of a behaviour     *)
(* run.  Text that the code inspects character by character (names,        *)
(* descriptions, hashes, build tags) is a sequence of one-character        *)
(* strings; text the code only passes along (region, file names) is a      *)
(* TLA+ string.                                                            *)
(***************************************************************************)
EXTENDS Integers, Sequences, FiniteSets, TLC

\* ------------------------------------------------------------------ text

\* Python's None and the empty string: every use of an optional argument in
\* the publisher is a truthiness test (`if architecture:`), and write_item
\* turns "" into None, so the two are one value here.
None == <<>>

Truthy(s) == s # <<>>

Min(a, b) == IF a < b THEN a ELSE b

Rep(c, n) == [i \in 1..n |-> c]

\* s[:n]
Take(s, n) == SubSeq(s, 1, Min(n, Len(s)))

\* s[n:]
Drop(s, n) == SubSeq(s, n + 1, Len(s))

\* sub in s
Contains(s, sub) ==
    \E i \in 0..(Len(s) - Len(sub)) : SubSeq(s, i + 1, i + Len(sub)) = sub

Digits == {"0", "1", "2", "3", "4", "5", "6", "7", "8", "9"}

Lower == {"a", "b", "c", "d", "e", "f", "g", "h", "i", "j", "k", "l", "m",
          "n", "o", "p", "q", "r", "s", "t", "u", "v", "w", "x", "y", "z"}

Upper == {"A", "B", "C", "D", "E", "F", "G", "H", "I", "J", "K", "L", "M",
          "N", "O", "P", "Q", "R", "S", "T", "U", "V", "W", "X", "Y", "Z"}

\* [a-zA-Z0-9_-]
NameChars == Lower \cup Upper \cup Digits \cup {"_", "-"}

\* re.sub(r'[^a-zA-Z0-9_-]', '_', s)
Sanitize(s) == [i \in 1..Len(s) |-> IF s[i] \in NameChars THEN s[i] ELSE "_"]

\* re.sub(r'^v', '', s)
StripV(s) == IF Len(s) > 0 /\ s[1] = "v" THEN Drop(s, 1) ELSE s

\* Index of the last "/" of s, 0 if there is none.
LastSlash(s) ==
    LET idx == {i \in 1..Len(s) : s[i] = "/"}
    IN  IF idx = {} THEN 0 ELSE CHOOSE i \in idx : \A j \in idx : j <= i

\* Number of leading characters of s outside [0-9.]
LeadNonVersion(s) ==
    LET stop == {i \in 1..Len(s) : s[i] \in Digits \cup {"."}}
    IN  IF stop = {} THEN Len(s)
        ELSE (CHOOSE i \in stop : \A j \in stop : i <= j) - 1

\* re.sub(r'.*\/[^0-9\.]*', '', github_ref): the greedy .* runs to the last
\* slash, then the characters that are neither digit nor dot are eaten; a
\* ref without a slash is left as it is.
RefVersion(ref) ==
    LET k == LastSlash(ref)
        rest == Drop(ref, k)
    IN  IF k = 0 THEN ref ELSE Drop(rest, LeadNonVersion(rest))

\* ------------------------------------------------------------- literals

S_latest == <<"l", "a", "t", "e", "s", "t">>
S_layer_ == <<"l", "a", "y", "e", "r", "-">>
S_amd64 == <<"a", "m", "d", "6", "4">>
S_arm64 == <<"a", "r", "m", "6", "4">>
S_x86_64 == <<"x", "8", "6", "_", "6", "4">>
S_prod == <<"p", "r", "o", "d">>
S_default == <<"d", "e", "f", "a", "u", "l", "t">>
S_NA == <<"N", "/", "A">>
S_BuildTags == <<"B", "u", "i", "l", "d", " ", "T", "a", "g", "s", ":", " ">>
S_MD5 == <<" ", "|", " ", "M", "D", "5", ":", " ">>
S_dots == <<".", ".", ".">>

\* s.replace("amd64", "x86_64"): every occurrence, left to right.
RECURSIVE ReplaceAmd64(_)
ReplaceAmd64(s) ==
    IF Len(s) < Len(S_amd64) THEN s
    ELSE IF Take(s, Len(S_amd64)) = S_amd64
         THEN S_x86_64 \o ReplaceAmd64(Drop(s, Len(S_amd64)))
         ELSE <<s[1]>> \o ReplaceAmd64(Drop(s, 1))

\* ------------------------------------------------------- layer identity

DescLimit == 256
DescKeep == 253
MD5HexLen == 32

\* calculate_md5: the digest of the artifact's bytes.  The artifacts of the
\* model are the files "A" and "B"; their digests are two fixed words of 32
\* hexadecimal digits.
calculate_md5(content) == Rep(IF content = "A" THEN "a" ELSE "b", MD5HexLen)

\* The version the name carries: explicit version, else collector version
\* without its leading v, else what GITHUB_REF gives, else "latest".
layer_version_of(version, collector_version, github_ref) ==
    IF Truthy(version) THEN version
    ELSE IF Truthy(collector_version) THEN StripV(collector_version)
    ELSE IF Truthy(github_ref)
         THEN (IF Truthy(RefVersion(github_ref)) THEN RefVersion(github_ref)
               ELSE S_latest)
         ELSE S_latest

\* arch_str of the boto3 revision: "x86_64" when no architecture is given.
arch_str_tools(architecture) ==
    IF Truthy(architecture) THEN ReplaceAmd64(architecture) ELSE S_x86_64

\* arch_str of the CLI revision: "x86_64 arm64" when no architecture is given.
arch_str_scripts(architecture) ==
    IF Truthy(architecture) THEN ReplaceAmd64(architecture)
    ELSE S_x86_64 \o <<" ">> \o S_arm64

\* construct_layer_name: (layer_name_cleaned, arch_str, layer_version_str).
construct_layer_name(rev, base_name, architecture, distribution, version, collector_version, release_group, github_ref) ==
    LET n1 == IF Truthy(architecture)
              THEN base_name \o <<"-">> \o architecture ELSE base_name
        n2 == IF Truthy(distribution)
              THEN n1 \o <<"-">> \o distribution ELSE n1
        lv == layer_version_of(version, collector_version, github_ref)
        cleaned == Sanitize(lv)
        n3 == IF Truthy(lv) THEN n2 \o <<"-">> \o cleaned ELSE n2
        n4 == n3 \o <<"-">> \o release_group
        n5 == Sanitize(n4)
        n6 == IF Len(n5) > 0 /\ n5[1] \in Digits THEN S_layer_ \o n5 ELSE n5
    IN  [layer_name |-> n6,
         arch_str |-> IF rev = "tools" THEN arch_str_tools(architecture)
                      ELSE arch_str_scripts(architecture),
         layer_version_str |-> IF Truthy(lv) THEN cleaned ELSE None]

\* -------------------------------------------------------------- registry

\* The description publish_layer sends: build tags and hash, cut to the
\* registry's 256 characters.
DescriptionOf(build_tags, md5_hash) ==
    LET description == S_BuildTags
                       \o (IF Truthy(build_tags) THEN build_tags ELSE S_NA)
                       \o S_MD5 \o md5_hash
    IN  IF Len(description) > DescLimit
        THEN Take(description, DescKeep) \o S_dots
        ELSE description

\* LayerVersionArn: the layer's name and the version number at its end.
ArnOf(layer_name, version) == <<layer_name, version>>

\* list_layer_versions(LayerName): the versions under the name, in the
\* registry's listing order.
ListVersions(reg, layer_name) ==
    SelectSeq(reg, LAMBDA v : v.LayerVersionArn[1] = layer_name)

\* A variant of FirstMatch that takes the last listed match.
FirstMatch_last(existing_layers, current_md5) ==
    LET hits == {i \in 1..Len(existing_layers) :
                   Contains(existing_layers[i].Description, current_md5)}
    IN  IF hits = {} THEN 0 ELSE CHOOSE i \in hits : \A j \in hits : j <= i

\* The first listed version whose description holds the hash, 0 if none.
FirstMatch(existing_layers, current_md5) ==
    LET hits == {i \in 1..Len(existing_layers) :
                   Contains(existing_layers[i].Description, current_md5)}
    IN  IF hits = {} THEN 0 ELSE CHOOSE i \in hits : \A j \in hits : i <= j

\* A variant of check_layer_exists that takes the last match, not the first.
check_layer_exists_last(listing, current_md5) ==
    IF listing.kind # "list" \/ Len(listing.versions) = 0
    THEN [skip_publish |-> FALSE, arn |-> None]
    ELSE LET hits == {i \in 1..Len(listing.versions) :
                        Contains(listing.versions[i].Description, current_md5)}
         IN  IF hits # {}
             THEN [skip_publish |-> TRUE,
                   arn |-> listing.versions[CHOOSE i \in hits :
                               \A j \in hits : j <= i].LayerVersionArn]
             ELSE [skip_publish |-> FALSE,
                   arn |-> listing.versions[1].LayerVersionArn]

\* check_layer_exists once the listing is in hand: (skip_publish, arn).
\* `listing` is the list of versions, or "none" (the inner function returned
\* None: not found) or "false" (it returned False: any other error).
check_layer_exists(listing, current_md5) ==
    IF listing.kind # "list" \/ Len(listing.versions) = 0
    THEN [skip_publish |-> FALSE, arn |-> None]
    ELSE LET m == FirstMatch(listing.versions, current_md5)
         IN  IF m # 0
             THEN [skip_publish |-> TRUE,
                   arn |-> listing.versions[m].LayerVersionArn]
             ELSE [skip_publish |-> FALSE,
                   arn |-> listing.versions[1].LayerVersionArn]

\* What the listing call hands to check_layer_exists for each answer of the
\* registry.  boto3 revision: ResourceNotFoundException gives None, every
\* other error gives False.  CLI revision: run_aws_command gives None for
\* not found and for other errors, and exits on access denied.
ListingOf(rev, answer, versions) ==
    CASE answer = "ok" -> [kind |-> "list", versions |-> versions]
      [] answer = "notfound" -> [kind |-> "none", versions |-> <<>>]
      [] answer = "accessdenied" ->
            IF rev = "tools" THEN [kind |-> "false", versions |-> <<>>]
            ELSE [kind |-> "exit", versions |-> <<>>]
      [] OTHER -> [kind |-> IF rev = "tools" THEN "false" ELSE "none",
                   versions |-> <<>>]

\* ------------------------------------------------------- metadata store

\* The table's key: the boto3 revision reads by pk alone, the CLI revision
\* by pk and sk.
KeyOf(rev, item) == IF rev = "tools" THEN <<item.pk>> ELSE <<item.pk, item.sk>>

\* table.put_item: an upsert by key.
put_item(tbl, rev, item) ==
    {i \in tbl : KeyOf(rev, i) # KeyOf(rev, item)} \cup {item}

\* write_metadata_to_dynamodb's validation: every required key is truthy.
ValidMetadata(m) ==
    /\ Truthy(m.pk) /\ Truthy(m.sk) /\ Truthy(m.layer_arn) /\ Truthy(m.region)
    /\ Truthy(m.distribution) /\ Truthy(m.architecture) /\ Truthy(m.md5_hash)

\* check_and_repair_dynamodb's test of the lookup's response.  boto3
\* revision: `response and 'Item' not in response`, where the response is
\* {'Item': item}, {} or None.  CLI revision: `'Item' not in response`.
ResponseTruthy(response) == response = "item"

\* A variant of NeedsRepair that repairs whatever the lookup found.
NeedsRepair_always(rev, response) == response # "none"

NeedsRepair(rev, response) ==
    IF rev = "tools" THEN ResponseTruthy(response) /\ response # "item"
    ELSE response = "empty"

\* str.split(): the words between runs of blanks.
RECURSIVE SplitAcc(_, _, _)
SplitAcc(s, cur, acc) ==
    IF s = <<>> THEN (IF cur = <<>> THEN acc ELSE Append(acc, cur))
    ELSE IF s[1] = " "
         THEN SplitAcc(Tail(s), <<>>, IF cur = <<>> THEN acc ELSE Append(acc, cur))
         ELSE SplitAcc(Tail(s), Append(cur, s[1]), acc)

Split(s) == SplitAcc(s, <<>>, <<>>)

\* ---------------------------------------------------------------- inputs

MaxRuns == 2
RaceRuns == 3
MaxFaults == 1
LongTagsLen == 205

\* Two publisher processes at a time: the orchestrator starts one process
\* per invocation, and a process slot of the model is taken again by a later
\* invocation once the run in it has ended.
Procs == {1, 2}

S_otel == <<"o", "t", "e", "l">>
S_region == <<"u", "s", "-", "e", "a", "s", "t", "-", "1">>
S_runtimes == <<"p", "3", " ", "n", "8">>
S_cv == <<"v", "0", ".", "1">>
S_ver == <<"1", ".", "2">>
S_tags == <<"l", "c", ".", "x">>

\* A command line, with the environment's PY_BUILD_TAGS and GITHUB_REF.
CommandLines(artifacts, architectures, publics, tags) ==
    [layer_name : {S_otel}, artifact_name : artifacts, region : {S_region},
     architecture : architectures, runtimes : {None},
     release_group : {S_prod}, layer_version : {None},
     distribution : {S_default}, collector_version : {S_cv},
     public : publics, build_tags : tags, github_ref : {None}]

\* The command lines of Spec: two artifacts, public access requested.
Args == CommandLines({"A", "B"}, {S_amd64}, {TRUE}, {S_tags})

\* The command lines of SpecSeq: one artifact, with and without an
\* architecture, with and without public access, with short and with long
\* build tags.
ArgsSeq ==
    CommandLines({"A"}, {None, S_amd64}, BOOLEAN,
                 {S_tags, Rep("t", LongTagsLen)})

\* The command line of SpecRace.
ArgsRace == CommandLines({"A"}, {S_amd64}, {TRUE}, {S_tags})

\* ----------------------------------------------------------------- state

VARIABLES
    revision,   \* "tools" or "scripts": the revision the processes run
    registry,   \* the layer registry: every version, newest first
    table,      \* the metadata store: a set of items
    proc,       \* proc[p]: the locals of main() in process p, kept after
                \* its end until the next run starts in p's place
    nruns,      \* the number of runs started
    faults,     \* the number of errors the registry and the store answered
    build       \* the build of one layer: its inputs and what its tools
                \* computed from them

vars == <<revision, registry, table, proc, nruns, faults, build>>

\* No build: the publisher runs on an artifact that was built before.
NoBuild == [pc |-> "none"]

\* No command line: the arguments of a process that is not running.
NoArgs ==
    [layer_name |-> None, artifact_name |-> "", region |-> None,
     architecture |-> None, runtimes |-> None, release_group |-> None,
     layer_version |-> None, distribution |-> None,
     collector_version |-> None, public |-> FALSE, build_tags |-> None,
     github_ref |-> None]

\* The locals of main() before it starts; the fields from list_answer on
\* record the calls the run made and the answers it got.
Idle ==
    [pc |-> "idle", run |-> 0, args |-> NoArgs,
     layer_name |-> None, arch_str |-> None, layer_version_str |-> None,
     md5_hash |-> None, skip_publish |-> FALSE, existing_layer_arn |-> None,
     layer_arn |-> None, public_success |-> TRUE,
     dynamo_write_attempted |-> FALSE, dynamo_success |-> FALSE,
     response |-> "none", outputs |-> <<>>, summary |-> FALSE,
     exit_code |-> -1,
     list_answer |-> "", publish_calls |-> 0, publish_answer |-> "",
     published |-> None, grant_answer |-> "", policy_calls |-> 0,
     permission_calls |-> 0, get_calls |-> 0, put_calls |-> 0,
     store_error |-> FALSE, write_answer |-> "", policy_answer |-> "",
     interrupted |-> FALSE]

Init ==
    /\ revision \in {"tools", "scripts"}
    /\ registry = <<>>
    /\ table = {}
    /\ proc = [p \in Procs |-> Idle]
    /\ nruns = 0
    /\ faults = 0
    /\ build = NoBuild

\* The runs that have ended.
Over == {"done", "failed"}

\* An error answer is one of the MaxFaults errors of a behaviour.
Errors(kinds) == IF faults < MaxFaults THEN kinds ELSE {}

IsError(answer) == answer \in {"accessdenied", "error"}

Count(answer) == faults' = faults + (IF IsError(answer) THEN 1 ELSE 0)

\* The errors the code tells apart in a call other than the listing: the
\* boto3 revision catches every ClientError alike, run_aws_command of the CLI
\* revision exits on access denied.
ErrorKinds(rev) == IF rev = "tools" THEN {"error"} ELSE {"accessdenied", "error"}

\* sys.exit(1), or sys.exit(message) in run_aws_command: exit code 1.
Exited(me) == [me EXCEPT !.pc = "failed", !.exit_code = 1]

\* A variant of Finished that exits non-zero when the metadata write of a
\* new version failed.
Finished_unless_write_failed(me) ==
    IF me.dynamo_write_attempted /\ ~me.dynamo_success
    THEN Exited(me)
    ELSE [me EXCEPT !.outputs = IF Truthy(me.layer_arn)
                                THEN Append(@, <<"layer_arn", me.layer_arn>>)
                                ELSE @,
                    !.summary = Truthy(me.layer_arn),
                    !.pc = "done", !.exit_code = 0]

\* A variant of Finished that reports the version check_layer_exists handed
\* back, if there is one, whether or not its hash matched.
Finished_emits_existing(me) ==
    LET arn == IF Truthy(me.existing_layer_arn) THEN me.existing_layer_arn
               ELSE me.layer_arn
    IN  [me EXCEPT !.outputs = IF Truthy(arn)
                               THEN Append(@, <<"layer_arn", arn>>)
                               ELSE @,
                   !.summary = Truthy(arn),
                   !.pc = "done", !.exit_code = 0]

\* main(), the end: the layer_arn output and the summary if there is an ARN,
\* then the process returns with code 0.
Finished(me) ==
    [me EXCEPT !.outputs = IF Truthy(me.layer_arn)
                           THEN Append(@, <<"layer_arn", me.layer_arn>>)
                           ELSE @,
               !.summary = Truthy(me.layer_arn),
               !.pc = "done", !.exit_code = 0]

\* The registry's answers to list_layer_versions: the list, an error, or
\* "not found" for a name it has no version of.
ListAnswers(existing) ==
    {"ok"} \cup Errors({"accessdenied", "error"})
        \cup (IF Len(existing) = 0 THEN {"notfound"} ELSE {})

\* str(skip_publish).lower()
BoolStr(b) == IF b THEN "true" ELSE "false"

\* main(), steps 1 to 3, of a process started with the command line a:
\* construct the layer name, hash the artifact, check_layer_exists, and the
\* early skip_publish output.
Start(p, a) ==
    /\ proc[p].pc \in {"idle"} \cup Over
    /\ nruns' = nruns + 1
    /\ LET id == construct_layer_name(revision, a.layer_name, a.architecture,
                     a.distribution, a.layer_version, a.collector_version,
                     a.release_group, a.github_ref)
           md5_hash == calculate_md5(a.artifact_name)
           existing == ListVersions(registry, id.layer_name)
       IN  \E answer \in ListAnswers(existing) :
             LET listing == ListingOf(revision, answer, existing)
                 r == check_layer_exists(listing, md5_hash)
                 me == [Idle EXCEPT
                          !.run = nruns + 1,
                          !.args = a,
                          !.layer_name = id.layer_name,
                          !.arch_str = id.arch_str,
                          !.layer_version_str = id.layer_version_str,
                          !.md5_hash = md5_hash,
                          !.list_answer = answer]
                 checked == [me EXCEPT
                          !.skip_publish = r.skip_publish,
                          !.existing_layer_arn = r.arn,
                          !.layer_arn = r.arn,
                          !.outputs = <<<<"skip_publish",
                                          BoolStr(r.skip_publish)>>>>]
             IN  /\ Count(answer)
                 /\ proc' = [proc EXCEPT ![p] =
                       IF listing.kind = "exit" THEN Exited(me)
                       ELSE IF ~r.skip_publish
                            THEN [checked EXCEPT !.pc = "publishing"]
                       ELSE IF Truthy(r.arn)
                            THEN [checked EXCEPT !.pc = "get_item"]
                       ELSE Finished(checked)]
    /\ UNCHANGED <<build, revision, registry, table>>

\* publish_layer's compatible architectures: the boto3 revision sends the
\* one-element list [arch.replace("amd64", "x86_64")], the CLI revision puts
\* arch on the command line, where the shell splits it at blanks.
CompatibleArchitectures(rev, arch) ==
    IF rev = "tools" THEN <<ReplaceAmd64(arch)>> ELSE Split(arch)

\* The version publish_layer_version creates under layer_name.
NewVersion(rev, reg, me) ==
    [LayerVersionArn |->
         ArnOf(me.layer_name, Len(ListVersions(reg, me.layer_name)) + 1),
     Description |-> DescriptionOf(me.args.build_tags, me.md5_hash),
     Content |-> me.args.artifact_name,
     CompatibleArchitectures |-> CompatibleArchitectures(rev, me.arch_str),
     CompatibleRuntimes |-> Split(me.args.runtimes),
     Public |-> FALSE]

\* A variant of AfterPublish that makes the grant whether or not --public
\* was given.
AfterPublish_always_grants(me) == "get_policy"

\* What main() does once publish_layer has returned the new ARN: the grant
\* if --public was given, else straight to the metadata.
AfterPublish(me) == IF me.args.public THEN "get_policy" ELSE "writing"

\* A variant of AfterPublishFailed that goes on to the end of main().
AfterPublishFailed_goes_on(me) == Finished(me)

\* What main() does when publish_layer returned None: sys.exit(1).  (In the
\* CLI revision access denied has ended the run inside run_aws_command
\* already, with a message as the exit status: code 1 as well.)
AfterPublishFailed(me) == Exited([me EXCEPT !.layer_arn = None])

\* main(), step 4: publish_layer.
PublishLayer(p) ==
    /\ proc[p].pc = "publishing"
    /\ \E answer \in {"ok"} \cup Errors(ErrorKinds(revision)) :
         LET me == [proc[p] EXCEPT !.publish_calls = @ + 1,
                                   !.publish_answer = answer]
             v == NewVersion(revision, registry, me)
         IN  /\ Count(answer)
             /\ IF answer = "ok"
                THEN /\ registry' = <<v>> \o registry
                     /\ proc' = [proc EXCEPT ![p] =
                           [me EXCEPT !.layer_arn = v.LayerVersionArn,
                                      !.published = v.LayerVersionArn,
                                      !.pc = AfterPublish(me)]]
                ELSE /\ proc' = [proc EXCEPT ![p] = AfterPublishFailed(me)]
                     /\ UNCHANGED registry
    /\ UNCHANGED <<build, revision, table, nruns>>

\* The version of the registry with the given ARN (0 if there is none).
VersionIndex(reg, arn) ==
    LET idx == {i \in 1..Len(reg) : reg[i].LayerVersionArn = arn}
    IN  IF idx = {} THEN 0 ELSE CHOOSE i \in idx : TRUE

\* The registry's answers to get_layer_version_policy: the policy if the
\* version has one, "not found" if it has none, or an error.
PolicyAnswers(rev, reg, arn) ==
    Errors(ErrorKinds(rev))
        \cup (IF reg[VersionIndex(reg, arn)].Public THEN {"exists"}
              ELSE {"notfound"})

\* make_layer_public after the policy lookup: where the run goes on.  boto3
\* revision: a policy gives "already_public", not found goes on to add the
\* permission, any other error gives None (the grant failed).  CLI revision:
\* access denied exits, and every other error goes on like not found.
AfterPolicy(rev, answer) ==
    CASE answer = "exists" -> "writing"
      [] answer = "notfound" -> "add_permission"
      [] answer = "accessdenied" /\ rev = "scripts" -> "exit"
      [] answer = "error" /\ rev = "scripts" -> "add_permission"
      [] OTHER -> "grant_failed"

\* A variant of AfterGrantFailed that goes on to the metadata write.
AfterGrantFailed_writes(me) ==
    [me EXCEPT !.public_success = FALSE, !.pc = "writing"]

\* What main() does when make_layer_public returned False: it warns and
\* skips the metadata write.
AfterGrantFailed(me) == Finished([me EXCEPT !.public_success = FALSE])

\* make_layer_public, first call: is there a policy already?
GetLayerVersionPolicy(p) ==
    /\ proc[p].pc = "get_policy"
    /\ \E answer \in PolicyAnswers(revision, registry, proc[p].layer_arn) :
         LET me == [proc[p] EXCEPT !.policy_calls = @ + 1,
                                   !.grant_answer = answer,
                                   !.policy_answer = answer]
             to == AfterPolicy(revision, answer)
         IN  /\ Count(answer)
             /\ proc' = [proc EXCEPT ![p] =
                   CASE to = "exit" -> Exited(me)
                     [] to = "grant_failed" -> AfterGrantFailed(me)
                     [] OTHER -> [me EXCEPT !.pc = to]]
    /\ UNCHANGED <<build, revision, registry, table, nruns>>

\* The registry's answers to add_layer_version_permission: a second
\* statement "publish" on a version that has one is a conflict, an error.
PermissionAnswers(rev, reg, arn) ==
    Errors(ErrorKinds(rev))
        \cup (IF reg[VersionIndex(reg, arn)].Public THEN {} ELSE {"ok"})

\* make_layer_public, second call: add the public permission.
AddLayerVersionPermission(p) ==
    /\ proc[p].pc = "add_permission"
    /\ \E answer \in PermissionAnswers(revision, registry, proc[p].layer_arn) :
         LET me == [proc[p] EXCEPT !.permission_calls = @ + 1,
                                   !.grant_answer = answer]
             i == VersionIndex(registry, proc[p].layer_arn)
         IN  /\ Count(answer)
             /\ registry' = IF answer = "ok"
                            THEN [registry EXCEPT ![i].Public = TRUE]
                            ELSE registry
             /\ proc' = [proc EXCEPT ![p] =
                   CASE answer = "ok" -> [me EXCEPT !.pc = "writing"]
                     [] answer = "accessdenied" /\ revision = "scripts" ->
                           Exited(me)
                     [] OTHER -> AfterGrantFailed(me)]
    /\ UNCHANGED <<build, revision, table, nruns>>

\* `args.runtimes.split() if args.runtimes else None`, with the DynamoDB
\* type it is stored as: a list ("L"), or a string set ("SS") where the
\* code builds set(...) (the runtimes of the model's inputs are distinct).
RuntimesAttr(kind, runtimes) ==
    IF Truthy(runtimes) THEN <<kind, Split(runtimes)>> ELSE None

\* The metadata main() builds for a new version.  publish_timestamp is
\* datetime.now(): the model's time is the ordinal of the run.  An attribute
\* whose value is None is an attribute write_item leaves out.
NewMetadata(rev, me) ==
    [pk |-> IF rev = "tools" THEN me.layer_arn ELSE me.args.distribution,
     sk |-> IF rev = "tools" THEN me.args.distribution ELSE me.layer_arn,
     layer_arn |-> me.layer_arn,
     region |-> me.args.region,
     base_name |-> me.args.layer_name,
     architecture |-> me.args.architecture,
     distribution |-> me.args.distribution,
     layer_version_str |-> me.layer_version_str,
     collector_version_input |-> me.args.collector_version,
     md5_hash |-> me.md5_hash,
     publish_timestamp |-> me.run,
     public |-> IF rev = "tools" THEN BoolStr(me.args.public) ELSE "absent",
     compatible_runtimes |-> RuntimesAttr("L", me.args.runtimes)]

\* The metadata check_and_repair_dynamodb builds for the reused version.
RepairMetadata(rev, me) ==
    [pk |-> IF rev = "tools" THEN me.existing_layer_arn
            ELSE me.args.distribution,
     sk |-> IF rev = "tools" THEN me.args.distribution
            ELSE me.existing_layer_arn,
     layer_arn |-> me.existing_layer_arn,
     region |-> me.args.region,
     base_name |-> me.args.layer_name,
     architecture |-> me.args.architecture,
     distribution |-> me.args.distribution,
     layer_version_str |-> me.layer_version_str,
     collector_version_input |-> me.args.collector_version,
     md5_hash |-> me.md5_hash,
     publish_timestamp |-> me.run,
     public |-> "absent",
     compatible_runtimes |->
         RuntimesAttr(IF rev = "tools" THEN "L" ELSE "SS", me.args.runtimes)]

\* The answers to write_metadata_to_dynamodb's put_item; a record the
\* validation rejects ("invalid") never reaches the store.
WriteAnswers(metadata) ==
    IF ValidMetadata(metadata) THEN {"ok"} \cup Errors({"error"})
    ELSE {"invalid"}

\* write_metadata_to_dynamodb: the validation, then put_item.  `ok` is the
\* function's return value, `puts` the number of put_item calls.
write_metadata_to_dynamodb(tbl, rev, metadata, answer) ==
    [table |-> IF answer = "ok" THEN put_item(tbl, rev, metadata) ELSE tbl,
     ok |-> answer = "ok",
     puts |-> IF answer = "invalid" THEN 0 ELSE 1]

\* main(), step 5.5: the metadata of the new version, then the end.
WriteMetadata(p) ==
    /\ proc[p].pc = "writing"
    /\ LET metadata == NewMetadata(revision, proc[p])
       IN  \E answer \in WriteAnswers(metadata) :
             LET w == write_metadata_to_dynamodb(table, revision, metadata,
                                                 answer)
             IN  /\ Count(answer)
                 /\ table' = w.table
                 /\ proc' = [proc EXCEPT ![p] =
                       Finished([@ EXCEPT !.dynamo_write_attempted = TRUE,
                                          !.dynamo_success = w.ok,
                                          !.put_calls = @ + w.puts,
                                          !.store_error = IsError(answer),
                                          !.write_answer = answer])]
    /\ UNCHANGED <<build, revision, registry, nruns>>

\* The item table.get_item finds: the boto3 revision looks up pk = ARN, the
\* CLI revision pk = distribution and sk = ARN.
HasItem(tbl, rev, arn, distribution) ==
    IF rev = "tools" THEN \E i \in tbl : i.pk = arn
    ELSE \E i \in tbl : i.pk = distribution /\ i.sk = arn

\* The response check_and_repair_dynamodb tests: "item" ({'Item': ...}),
\* "empty" (the boto3 revision's {}, the CLI revision's response without
\* 'Item') or "none" (the store's error, caught).
ResponseOf(answer, has_item) ==
    IF answer = "error" THEN "none" ELSE IF has_item THEN "item" ELSE "empty"

\* check_and_repair_dynamodb, the lookup; the run ends here unless the
\* record is to be repaired.
GetItem(p) ==
    /\ proc[p].pc = "get_item"
    /\ \E answer \in {"ok"} \cup Errors({"error"}) :
         LET response ==
                 ResponseOf(answer,
                            HasItem(table, revision, proc[p].existing_layer_arn,
                                    proc[p].args.distribution))
             me == [proc[p] EXCEPT !.response = response, !.get_calls = @ + 1,
                                   !.store_error = IsError(answer)]
         IN  /\ Count(answer)
             /\ proc' = [proc EXCEPT ![p] =
                   IF NeedsRepair(revision, response)
                   THEN [me EXCEPT !.pc = "repair_write"]
                   ELSE Finished(me)]
    /\ UNCHANGED <<build, revision, registry, table, nruns>>

\* check_and_repair_dynamodb, the repair: write the missing record, then
\* the end of main().
RepairWrite(p) ==
    /\ proc[p].pc = "repair_write"
    /\ LET metadata == RepairMetadata(revision, proc[p])
       IN  \E answer \in WriteAnswers(metadata) :
             LET w == write_metadata_to_dynamodb(table, revision, metadata,
                                                 answer)
             IN  /\ Count(answer)
                 /\ table' = w.table
                 /\ proc' = [proc EXCEPT ![p] =
                       Finished([@ EXCEPT !.put_calls = @ + w.puts,
                                          !.store_error = IsError(answer),
                                          !.write_answer = answer])]
    /\ UNCHANGED <<build, revision, registry, nruns>>

\* One step of a process that has started.
Step(p) ==
    \/ PublishLayer(p)
    \/ GetLayerVersionPolicy(p)
    \/ AddLayerVersionPermission(p)
    \/ WriteMetadata(p)
    \/ GetItem(p)
    \/ RepairWrite(p)

\* No process is running: every run that started has ended.
Quiet == \A p \in Procs : proc[p].pc \in {"idle"} \cup Over

\* Up to MaxRuns invocations, at most two of them at a time.
Next ==
    \E p \in Procs :
        \/ nruns < MaxRuns /\ \E a \in Args : Start(p, a)
        \/ Step(p)

Spec == Init /\ [][Next]_vars

\* Up to MaxRuns invocations, one after the other.
NextSeq ==
    \E p \in Procs :
        \/ nruns < MaxRuns /\ Quiet /\ \E a \in ArgsSeq : Start(p, a)
        \/ Step(p)

SpecSeq == Init /\ [][NextSeq]_vars

\* Up to RaceRuns invocations of one command line, at most two at a time.
NextRace ==
    \E p \in Procs :
        \/ nruns < RaceRuns /\ \E a \in ArgsRace : Start(p, a)
        \/ Step(p)

SpecRace == Init /\ [][NextRace]_vars

\* ------------------------------------------- a registry with a history

MaxListed == 2
CheckRuns == 1

\* What earlier invocations left under the layer name: a version of
\* artifact "A" or "B" published with short build tags, or a version of
\* artifact "A" published with long ones ("cut": its description was cut).
Kinds == {"A", "B", "cut"}

PriorVersion(rev, layer_name, n, kind) ==
    [LayerVersionArn |-> ArnOf(layer_name, n),
     Description |->
         IF kind = "cut"
         THEN DescriptionOf(Rep("t", LongTagsLen), calculate_md5("A"))
         ELSE DescriptionOf(S_tags, calculate_md5(kind)),
     Content |-> IF kind = "cut" THEN "A" ELSE kind,
     CompatibleArchitectures |-> CompatibleArchitectures(rev, S_x86_64),
     CompatibleRuntimes |-> <<>>,
     Public |-> FALSE]

\* The registry after the publishes of kinds[L], ..., kinds[1], newest first.
PriorRegistry(rev, kinds) ==
    LET a == CHOOSE x \in Args : TRUE
        layer_name == construct_layer_name(rev, a.layer_name, a.architecture,
                          a.distribution, a.layer_version,
                          a.collector_version, a.release_group,
                          a.github_ref).layer_name
    IN  [i \in 1..Len(kinds) |->
            PriorVersion(rev, layer_name, Len(kinds) - i + 1, kinds[i])]

Histories == UNION {[1..n -> Kinds] : n \in 0..MaxListed}

InitCheck ==
    /\ revision \in {"tools", "scripts"}
    /\ registry \in {PriorRegistry(revision, h) : h \in Histories}
    /\ table = {}
    /\ proc = [p \in Procs |-> Idle]
    /\ nruns = 0
    /\ faults = 0
    /\ build = NoBuild

\* Up to CheckRuns invocations against a registry with a history.
NextCheck ==
    \E p \in Procs :
        \/ nruns < CheckRuns /\ \E a \in Args : Start(p, a)
        \/ Step(p)

SpecCheck == InitCheck /\ [][NextCheck]_vars

\* ---------------------------------------------------------------- claims

\* No registry error in the run of process p: the listing, the publish and
\* the grant were all answered.
NoRegistryError(p) ==
    /\ ~IsError(proc[p].list_answer)
    /\ ~IsError(proc[p].publish_answer)
    /\ ~IsError(proc[p].grant_answer)

\* C1: two runs in sequence with the same artifact, identity and build tags
\* and no registry error leave exactly one version under the name: the first
\* run published, the second reports skip_publish with the first's ARN.
C1_TwiceOneVersion ==
    \A p, q \in Procs :
        ( /\ proc[p].run = 1 /\ proc[q].run = 2
          /\ proc[p].pc \in Over /\ proc[q].pc \in Over
          /\ proc[p].args = proc[q].args
          /\ NoRegistryError(p) /\ NoRegistryError(q) )
        => /\ ~proc[p].skip_publish
           /\ proc[p].published # None
           /\ proc[q].skip_publish
           /\ proc[q].published = None
           /\ proc[q].existing_layer_arn = proc[p].published
           /\ Len(ListVersions(registry, proc[p].layer_name)) = 1

\* C2: every description in the registry is at most DescLimit characters
\* long and contains the full hash of the version's content.
C2_DescriptionHoldsHash ==
    \A i \in 1..Len(registry) :
        /\ Len(registry[i].Description) <= DescLimit
        /\ Contains(registry[i].Description,
                    calculate_md5(registry[i].Content))

\* C3: a run whose listing was answered (with the list, or "not found")
\* reports skip_publish exactly when a listed description contains its hash,
\* and then with the first such version in listing order; with versions but
\* no match it keeps the first listed version and publishes; with no version
\* or "not found" it has no ARN and publishes.
C3_CheckLayerExists ==
    [][\A p \in Procs :
        ( /\ nruns' = nruns + 1
          /\ proc'[p].run = nruns'
          /\ proc'[p].list_answer \in {"ok", "notfound"} )
        => LET listed == ListVersions(registry, proc'[p].layer_name)
               matches == {i \in 1..Len(listed) :
                             Contains(listed[i].Description,
                                      proc'[p].md5_hash)}
           IN  /\ proc'[p].skip_publish <=> matches # {}
               /\ matches # {} =>
                     \E i \in matches :
                        /\ \A j \in matches : i <= j
                        /\ proc'[p].existing_layer_arn
                               = listed[i].LayerVersionArn
               /\ (matches = {} /\ Len(listed) > 0) =>
                     proc'[p].existing_layer_arn = listed[1].LayerVersionArn
               /\ (Len(listed) = 0 \/ proc'[p].list_answer = "notfound") =>
                     /\ ~proc'[p].skip_publish
                     /\ proc'[p].existing_layer_arn = None
      ]_vars

\* C3, its case: a run reuses the first of two listed versions that both
\* hold its hash.
C3_FirstOfTwoMatches ==
    \E p \in Procs :
        LET listed == ListVersions(registry, proc[p].layer_name)
        IN  /\ proc[p].run > 0
            /\ proc[p].skip_publish
            /\ \E i, j \in 1..Len(listed) :
                  /\ i < j
                  /\ Contains(listed[i].Description, proc[p].md5_hash)
                  /\ Contains(listed[j].Description, proc[p].md5_hash)
                  /\ proc[p].existing_layer_arn = listed[i].LayerVersionArn

\* The store holds a record for the version arn and the distribution.
RecordOf(arn, distribution) ==
    {i \in table : i.layer_arn = arn /\ i.distribution = distribution}

\* C4: a reuse run whose lookup found no record, with the store reachable,
\* ends with a record for the reused version in the store.
C4_RepairWritesRecord ==
    \A p \in Procs :
        ( /\ proc[p].pc = "done"
          /\ proc[p].skip_publish
          /\ proc[p].response = "empty"
          /\ ~proc[p].store_error )
        => RecordOf(proc[p].existing_layer_arn,
                    proc[p].args.distribution) # {}

\* C5: the repair of a version whose record is in the store writes nothing:
\* the step of a process at the lookup leaves the store as it is and ends
\* the run without a put_item.
C5_RepairNoOp ==
    [][\A p \in Procs :
        ( /\ proc[p].pc = "get_item"
          /\ HasItem(table, revision, proc[p].existing_layer_arn,
                     proc[p].args.distribution)
          /\ proc'[p] # proc[p] )
        => /\ table' = table
           /\ proc'[p].pc = "done"
           /\ proc'[p].put_calls = 0
      ]_vars

\* C5, its case: a reuse run has ended whose lookup found the record.
C5_RecordFound ==
    \E p \in Procs :
        /\ proc[p].pc = "done"
        /\ proc[p].skip_publish
        /\ proc[p].response = "item"
        /\ proc[p].put_calls = 0

\* C6: a record in the store stays as it is, in every step of every
\* interleaving.
C6_RecordsNeverChange ==
    [][\A i \in table : i \in table']_vars

\* C7: a run that published a new version, with the grant not failed and
\* the store reachable, ends with a record for the new version and the
\* run's distribution in the store.
C7_RecordAfterPublish ==
    \A p \in Procs :
        ( /\ proc[p].pc = "done"
          /\ proc[p].published # None
          /\ proc[p].public_success
          /\ ~proc[p].store_error )
        => RecordOf(proc[p].published, proc[p].args.distribution) # {}

\* The run of process p published a version and its grant then failed.
GrantFailed(p) ==
    /\ proc[p].pc \in Over
    /\ proc[p].published # None
    /\ IsError(proc[p].grant_answer)

\* C8, as stated: after a failed grant the version is still in the
\* registry, the run exits 0 and the metadata write was attempted.
C8_GrantFailureThenWrite ==
    \A p \in Procs :
        GrantFailed(p)
        => /\ VersionIndex(registry, proc[p].published) # 0
           /\ proc[p].exit_code = 0
           /\ proc[p].dynamo_write_attempted

\* C8, amended: after a failed grant the version is still in the registry
\* and the metadata write is skipped (no put_item); the run exits 0 with the
\* layer_arn output, except that the CLI revision exits non-zero when the
\* grant was denied access.
C8_GrantFailureSkipsWrite ==
    \A p \in Procs :
        GrantFailed(p)
        => /\ VersionIndex(registry, proc[p].published) # 0
           /\ ~proc[p].dynamo_write_attempted
           /\ proc[p].put_calls = 0
           /\ IF revision = "scripts" /\ proc[p].grant_answer = "accessdenied"
              THEN proc[p].exit_code # 0
              ELSE /\ proc[p].exit_code = 0
                   /\ proc[p].summary
                   /\ ~proc[p].public_success

\* C8, its case: a run has ended with code 0 after its grant failed.
C8_GrantFailed ==
    \E p \in Procs :
        /\ GrantFailed(p)
        /\ proc[p].pc = "done"
        /\ ~proc[p].public_success

\* C9: a run whose publish was answered with an error has ended non-zero
\* after one publish call, with no grant call, no put_item, no summary and
\* no layer_arn output.
C9_PublishFailureFatal ==
    \A p \in Procs :
        IsError(proc[p].publish_answer)
        => /\ proc[p].pc = "failed"
           /\ proc[p].exit_code > 0
           /\ proc[p].publish_calls = 1
           /\ proc[p].policy_calls = 0
           /\ proc[p].permission_calls = 0
           /\ proc[p].put_calls = 0
           /\ ~proc[p].dynamo_write_attempted
           /\ ~proc[p].summary
           /\ \A k \in 1..Len(proc[p].outputs) :
                  proc[p].outputs[k][1] # "layer_arn"

\* C9, its case: a run has failed at the publish.
C9_PublishFailed ==
    \E p \in Procs :
        /\ IsError(proc[p].publish_answer)
        /\ proc[p].pc = "failed"
        /\ proc[p].publish_calls = 1

\* C10: a run whose listing was answered with an error other than "not
\* found" has ended non-zero without a publish call.
C10_ListingErrorFatal ==
    \A p \in Procs :
        IsError(proc[p].list_answer)
        => /\ proc[p].pc = "failed"
           /\ proc[p].exit_code > 0
           /\ proc[p].publish_calls = 0

\* The command lines of SpecOpt: one artifact, with and without an
\* architecture, with and without public access.
ArgsOpt == CommandLines({"A"}, {None, S_amd64}, BOOLEAN, {S_tags})

\* Up to MaxRuns invocations with or without the optional architecture, one
\* after the other.
NextOpt ==
    \E p \in Procs :
        \/ nruns < MaxRuns /\ Quiet /\ \E a \in ArgsOpt : Start(p, a)
        \/ Step(p)

SpecOpt == Init /\ [][NextOpt]_vars

\* The metadata step of the run of process p failed: the lookup or the write
\* was answered with an error, or the record was rejected by the validation.
MetadataFailed(p) ==
    \/ proc[p].store_error
    \/ proc[p].write_answer \in {"error", "invalid"}

\* C11: a run whose metadata write, lookup or repair failed has ended with
\* code 0, the summary and the layer_arn output of the version it published
\* or reused, and that version is in the registry.
C11_MetadataFailureSoft ==
    \A p \in Procs :
        MetadataFailed(p)
        => LET arn == IF proc[p].skip_publish
                      THEN proc[p].existing_layer_arn
                      ELSE proc[p].published
           IN  /\ proc[p].pc = "done"
               /\ proc[p].exit_code = 0
               /\ proc[p].summary
               /\ Truthy(arn)
               /\ VersionIndex(registry, arn) # 0
               /\ \E k \in 1..Len(proc[p].outputs) :
                      proc[p].outputs[k] = <<"layer_arn", arn>>

\* C11, its case: a run that published has ended after a failed write, and
\* the store holds no record of its version.
C11_WriteFailed ==
    \E p \in Procs :
        /\ proc[p].pc = "done"
        /\ proc[p].published # None
        /\ proc[p].dynamo_write_attempted
        /\ ~proc[p].dynamo_success
        /\ proc[p].write_answer \in {"error", "invalid"}
        /\ RecordOf(proc[p].published, proc[p].args.distribution) = {}

\* C12: a step that calls get_layer_version_policy or
\* add_layer_version_permission is a step of a run that published a new
\* version and was asked for public access, and only such a step changes a
\* version's permissions: a run that reuses a version makes neither call.
C12_GrantOnlyAfterPublish ==
    [][/\ \A p \in Procs :
            ( \/ proc'[p].policy_calls > proc[p].policy_calls
              \/ proc'[p].permission_calls > proc[p].permission_calls )
            => /\ proc[p].published # None
               /\ proc[p].publish_answer = "ok"
               /\ proc[p].args.public
               /\ ~proc[p].skip_publish
       /\ \A i \in 1..Len(registry) :
            ( /\ Len(registry') = Len(registry)
              /\ registry'[i].Public # registry[i].Public )
            => \E p \in Procs :
                  /\ proc'[p].permission_calls > proc[p].permission_calls
                  /\ proc[p].published = registry[i].LayerVersionArn
                  /\ ~proc[p].skip_publish
      ]_vars

\* C12, its case: a run asked for public access has reused a version that
\* is not public, and has ended without a policy or permission call.
C12_ReuseLeavesPermissions ==
    \E p \in Procs :
        /\ proc[p].pc = "done"
        /\ proc[p].skip_publish
        /\ proc[p].args.public
        /\ proc[p].policy_calls = 0
        /\ proc[p].permission_calls = 0
        /\ VersionIndex(registry, proc[p].existing_layer_arn) # 0
        /\ ~registry[VersionIndex(registry,
                                  proc[p].existing_layer_arn)].Public

\* C13: a run whose policy lookup found a grant makes no add-permission
\* call and reports the grant as done; a run makes the add-permission call
\* only after a lookup that found no grant ("not found"), and at most once.
C13_AddOnlyWhenNoGrant ==
    \A p \in Procs :
        /\ proc[p].policy_answer = "exists"
           => /\ proc[p].permission_calls = 0
              /\ proc[p].public_success
        /\ proc[p].permission_calls > 0
           => /\ proc[p].policy_answer = "notfound"
              /\ proc[p].permission_calls = 1

\* The listed versions of the name whose description holds the hash.
SameHash(reg, layer_name, md5_hash) ==
    LET listed == ListVersions(reg, layer_name)
    IN  {i \in 1..Len(listed) : Contains(listed[i].Description, md5_hash)}

\* C14: a run that starts when every earlier run has ended and two or more
\* versions of its name hold its hash, and whose listing is answered,
\* reuses the first of them in listing order and goes to the metadata
\* lookup; and no step of a run that reuses a version changes the registry.
C14_AfterRaceReuse ==
    [][/\ \A p \in Procs :
            ( /\ nruns' = nruns + 1
              /\ proc'[p].run = nruns'
              /\ Quiet
              /\ proc'[p].list_answer = "ok"
              /\ Cardinality(SameHash(registry, proc'[p].layer_name,
                                      proc'[p].md5_hash)) >= 2 )
            => LET listed == ListVersions(registry, proc'[p].layer_name)
                   hits == SameHash(registry, proc'[p].layer_name,
                                    proc'[p].md5_hash)
               IN  /\ proc'[p].skip_publish
                   /\ proc'[p].pc = "get_item"
                   /\ \E i \in hits :
                         /\ \A j \in hits : i <= j
                         /\ proc'[p].existing_layer_arn
                                = listed[i].LayerVersionArn
       /\ \A p \in Procs :
            ( /\ proc[p].skip_publish
              /\ proc'[p].run = proc[p].run
              /\ proc'[p] # proc[p] )
            => /\ registry' = registry
               /\ proc'[p].publish_calls = 0
      ]_vars

\* C14, its case: with no error answered, two runs published the same hash
\* under one name, and the third run has reused the first of the two
\* versions in listing order.
C14_TwoVersionsThenReuse ==
    \E p \in Procs :
        LET listed == ListVersions(registry, proc[p].layer_name)
        IN  /\ faults = 0
            /\ proc[p].run = 3
            /\ proc[p].pc = "done"
            /\ proc[p].skip_publish
            /\ Len(listed) = 2
            /\ SameHash(registry, proc[p].layer_name, proc[p].md5_hash)
                   = {1, 2}
            /\ proc[p].existing_layer_arn = listed[1].LayerVersionArn

\* ------------------------------------------------------ interrupted runs

\* The process is killed (a cancelled job, a lost runner) after
\* publish_layer has returned and before the metadata write: main() makes no
\* further call and catches no signal.
Interrupt(p) ==
    /\ proc[p].pc \in {"get_policy", "add_permission", "writing"}
    /\ proc' = [proc EXCEPT ![p] = [@ EXCEPT !.pc = "failed",
                                             !.exit_code = 1,
                                             !.interrupted = TRUE]]
    /\ UNCHANGED <<build, revision, registry, table, nruns, faults>>

\* Up to MaxRuns invocations of one command line, one after the other, each
\* of which may be interrupted after its publish.
NextCrash ==
    \E p \in Procs :
        \/ nruns < MaxRuns /\ Quiet /\ \E a \in ArgsRace : Start(p, a)
        \/ Step(p)
        \/ Interrupt(p)

SpecCrash == Init /\ [][NextCrash]_vars

\* C15: after a run that was interrupted between its publish and its
\* metadata write, a later run with the same command line that is not
\* interrupted and is answered without error reuses the published version,
\* publishes nothing, and ends with a record of that version in the store.
C15_RecoversAfterInterrupt ==
    \A p, q \in Procs :
        ( /\ proc[p].interrupted
          /\ proc[p].published # None
          /\ proc[q].run > proc[p].run
          /\ proc[q].args = proc[p].args
          /\ proc[q].pc \in Over
          /\ ~proc[q].interrupted
          /\ NoRegistryError(q)
          /\ ~MetadataFailed(q) )
        => /\ proc[q].pc = "done"
           /\ proc[q].skip_publish
           /\ proc[q].publish_calls = 0
           /\ proc[q].existing_layer_arn = proc[p].published
           /\ Len(ListVersions(registry, proc[q].layer_name)) = 1
           /\ RecordOf(proc[p].published, proc[q].args.distribution) # {}

\* -------------------------------------------------------- distributions

\* A build tag is the sequence of its dot-separated segments:
\* "lambdacomponents.exporter.all" is <<"lambdacomponents", "exporter",
\* "all">>.
T_all == <<"lambdacomponents", "all">>
T_exporter_all == <<"lambdacomponents", "exporter", "all">>
T_clickhouse == <<"lambdacomponents", "exporter", "clickhouse">>
T_otlp == <<"lambdacomponents", "receiver", "otlp">>
T_custom == <<"custom">>

\* The empty string, split at its dots.
EmptyTag == <<"">>

\* A distribution with no base.
NoBase == ""

\* No distribution name.
NoName == ""

\* The names a distribution table may hold, and a name no table holds.
DistNames == <<"default", "minimal", "full", "extra">>
MaxDists == 3
TableNames == {DistNames[i] : i \in 1..MaxDists}
S_unknown == "unknown"

\* The buildtags lists of the distributions.
TagLists == {<<>>, <<T_clickhouse>>, <<T_otlp, T_clickhouse>>}

\* The distribution tables: every entry has a buildtags list and a base that
\* is null or a key of the table.
Tables == UNION {[D -> [base : D \cup {NoBase}, buildtags : TagLists]] : D \in SUBSET TableNames}

\* The elements of a sequence.
Range(seq) == {seq[i] : i \in 1..Len(seq)}

\* The walk of the base chain from name upward: the names visited, leaf
\* first, or CircularInheritance if a name is met again before a root.
RECURSIVE WalkBases(_, _, _)
WalkBases(distributions, name, visited) ==
    IF name \in Range(visited)
    THEN [error |-> "CircularInheritance", visited |-> <<>>]
    ELSE IF distributions[name].base = NoBase
         THEN [error |-> "", visited |-> Append(visited, name)]
         ELSE WalkBases(distributions, distributions[name].base,
                        Append(visited, name))

\* One distribution's own tags applied to the output: a tag already present
\* is skipped.
RECURSIVE ApplyTags(_, _)
ApplyTags(out, tags) ==
    IF tags = <<>> THEN out
    ELSE ApplyTags(IF Head(tags) \in Range(out) THEN out
                   ELSE Append(out, Head(tags)),
                   Tail(tags))

\* The tags of visited[k], visited[k-1], ..., visited[1] applied in turn:
\* the root is the last name visited.
RECURSIVE ApplyChain(_, _, _, _)
ApplyChain(distributions, visited, k, out) ==
    IF k = 0 THEN out
    ELSE ApplyChain(distributions, visited, k - 1,
                    ApplyTags(out, distributions[visited[k]].buildtags))

\* resolve(distributionName, table): the resolved tags, or the error it
\* fails with; an error comes with no tags.
resolve_build_tags(distribution, distributions) ==
    IF distribution \notin DOMAIN distributions
    THEN [error |-> "DistributionNotFound", tags |-> <<>>]
    ELSE LET walk == WalkBases(distributions, distribution, <<>>)
         IN  IF walk.error # ""
             THEN [error |-> walk.error, tags |-> <<>>]
             ELSE [error |-> "",
                   tags |-> ApplyChain(distributions, walk.visited,
                                       Len(walk.visited), <<>>)]

\* ",".join(filter(None, buildtags_list)): the tags of the string, the empty
\* ones left out.
JoinTags_reversed(buildtags_list) ==
    LET kept == SelectSeq(buildtags_list, LAMBDA t : t # EmptyTag)
    IN  [i \in 1..Len(kept) |-> kept[Len(kept) - i + 1]]

JoinTags(buildtags_list) ==
    SelectSeq(buildtags_list, LAMBDA t : t # EmptyTag)

\* The build before a tool has run on (distribution, distributions).
BuildStart(distribution, distributions) ==
    [pc |-> "start", tool |-> "", distribution |-> distribution,
     distributions |-> distributions, build_tags |-> <<>>,
     resolved_as |-> NoName, error |-> "", exit_code |-> -1]

\* local-build.py after resolve_build_tags raised DistributionError: the
\* step fails and the program exits 1.
AfterResolveError_falls_back(b, err) ==
    LET fallback == resolve_build_tags("default", b.distributions)
    IN  IF fallback.error = ""
        THEN [b EXCEPT !.pc = "resolved", !.tool = "local-build",
                       !.build_tags = JoinTags(fallback.tags),
                       !.resolved_as = "default"]
        ELSE [b EXCEPT !.pc = "failed", !.tool = "local-build",
                       !.error = err, !.exit_code = 1]

AfterResolveError(b, err) ==
    [b EXCEPT !.pc = "failed", !.tool = "local-build", !.error = err,
              !.exit_code = 1]

\* local-build.py: the table is loaded when the module is, and an empty one
\* ends the program; --distribution is one of the table's keys, or click
\* ends the program with a usage error; then the tags are resolved and
\* joined.
LocalBuild ==
    /\ build.pc = "start"
    /\ build' =
        IF DOMAIN build.distributions = {}
        THEN [build EXCEPT !.pc = "failed", !.tool = "local-build",
                           !.error = "ValueError", !.exit_code = 1]
        ELSE IF build.distribution \notin DOMAIN build.distributions
        THEN [build EXCEPT !.pc = "failed", !.tool = "local-build",
                           !.error = "UsageError", !.exit_code = 2]
        ELSE LET r == resolve_build_tags(build.distribution,
                                         build.distributions)
             IN  IF r.error # ""
                 THEN AfterResolveError(build, r.error)
                 ELSE [build EXCEPT !.pc = "resolved",
                                    !.tool = "local-build",
                                    !.build_tags = JoinTags(r.tags),
                                    !.resolved_as = build.distribution]
    /\ UNCHANGED <<revision, registry, table, proc, nruns, faults>>

\* get_release_info.py: the except clause of line 71 is indented to no
\* enclosing block, so the interpreter rejects the file with an
\* IndentationError before its first statement: it exits 1 and sets no
\* output, whatever the distribution and the table.
GetReleaseInfo ==
    /\ build.pc = "start"
    /\ build' = [build EXCEPT !.pc = "failed",
                              !.tool = "get_release_info",
                              !.error = "IndentationError",
                              !.exit_code = 1]
    /\ UNCHANGED <<revision, registry, table, proc, nruns, faults>>

\* get_build_tags_list of build_extension_layer.py: the tags as a list, or
\* the DistributionError raised again.
get_build_tags_list(distribution, distributions) ==
    IF DOMAIN distributions = {}
    THEN [error |-> "DistributionError", tags |-> <<>>]
    ELSE resolve_build_tags(distribution, distributions)

GetBuildTagsList ==
    /\ build.pc = "start"
    /\ LET r == get_build_tags_list(build.distribution, build.distributions)
       IN  build' =
             IF r.error # ""
             THEN [build EXCEPT !.pc = "raised",
                                !.tool = "build_extension_layer",
                                !.error = r.error]
             ELSE [build EXCEPT !.pc = "resolved",
                                !.tool = "build_extension_layer",
                                !.build_tags = r.tags,
                                !.resolved_as = build.distribution]
    /\ UNCHANGED <<revision, registry, table, proc, nruns, faults>>

\* One tool of the build runs on a distribution name and a table.
InitResolve ==
    /\ revision = "tools"
    /\ registry = <<>>
    /\ table = {}
    /\ proc = [p \in Procs |-> Idle]
    /\ nruns = 0
    /\ faults = 0
    /\ \E distributions \in Tables :
         \E distribution \in TableNames \cup {S_unknown} :
            build = BuildStart(distribution, distributions)

NextResolve ==
    \/ LocalBuild
    \/ GetReleaseInfo
    \/ GetBuildTagsList

SpecResolve == InitResolve /\ [][NextResolve]_vars

\* The k-th base of name: name itself for k = 0, NoBase past the root.
RECURSIVE Ancestor(_, _, _)
Ancestor(distributions, name, k) ==
    IF k = 0 THEN name
    ELSE LET below == Ancestor(distributions, name, k - 1)
         IN  IF below = NoBase THEN NoBase ELSE distributions[below].base

\* The base chain of name ends in a root.
Acyclic(distributions, name) ==
    \E k \in 1..Cardinality(DOMAIN distributions) :
        Ancestor(distributions, name, k) = NoBase

\* The number of distributions on the base chain of name, name included.
Depth(distributions, name) ==
    CHOOSE k \in 1..Cardinality(DOMAIN distributions) :
        /\ Ancestor(distributions, name, k) = NoBase
        /\ Ancestor(distributions, name, k - 1) # NoBase

\* The tag lists of the k-th base of name down to name, one after the other.
RECURSIVE TagsBelow(_, _, _)
TagsBelow(distributions, name, k) ==
    distributions[Ancestor(distributions, name, k)].buildtags
        \o (IF k = 0 THEN <<>> ELSE TagsBelow(distributions, name, k - 1))

RootToLeaf(distributions, name) ==
    TagsBelow(distributions, name, Depth(distributions, name) - 1)

\* The place of the first x in seq.
FirstIndex(seq, x) ==
    CHOOSE i \in 1..Len(seq) : seq[i] = x /\ \A j \in 1..(i - 1) : seq[j] # x

\* out is all with only the first occurrence of each element kept.
FirstOccurrences(out, all) ==
    /\ Range(out) = Range(all)
    /\ \A i, j \in 1..Len(out) : i # j => out[i] # out[j]
    /\ \A i, j \in 1..Len(out) :
         i < j => FirstIndex(all, out[i]) < FirstIndex(all, out[j])

\* C16: for every name of the table whose base chain is acyclic, resolve
\* ends without error and returns the tag lists of the chain, root first and
\* the distribution's own last, with only the first occurrence of each tag
\* kept (the empty sequence if every list of the chain is empty); a
\* local-build run on such a name passes on exactly these tags.
C16_ResolveRootToLeaf ==
    /\ \A name \in DOMAIN build.distributions :
         Acyclic(build.distributions, name) =>
            LET r == resolve_build_tags(name, build.distributions)
                all == RootToLeaf(build.distributions, name)
            IN  /\ r.error = ""
                /\ FirstOccurrences(r.tags, all)
                /\ all = <<>> => r.tags = <<>>
    /\ ( /\ build.tool = "local-build"
         /\ build.distribution \in DOMAIN build.distributions
         /\ Acyclic(build.distributions, build.distribution) )
       => /\ build.pc = "resolved"
          /\ build.error = ""
          /\ build.resolved_as = build.distribution
          /\ FirstOccurrences(build.build_tags,
                              RootToLeaf(build.distributions,
                                         build.distribution))

\* A local-build run has resolved a distribution with a base whose tags
\* repeat one of its own.
C16_InheritedWithRepeat ==
    /\ build.tool = "local-build"
    /\ build.pc = "resolved"
    /\ Depth(build.distributions, build.distribution) >= 2
    /\ Len(build.build_tags) = 2
    /\ Len(RootToLeaf(build.distributions, build.distribution)) > 2

\* A tool has run and ended in an error: it exited non-zero, or raised.
BuildFailed ==
    \/ build.pc = "failed" /\ build.exit_code \notin {0, -1}
    \/ build.pc = "raised" /\ build.error # ""

\* C17: for every name of the table whose base chain comes back to a name,
\* resolve ends with CircularInheritance and no tags; a tool run on such a
\* name ends in an error, with no build tags and no other distribution
\* resolved in its place.
C17_CycleFatal ==
    /\ \A name \in DOMAIN build.distributions :
         ~Acyclic(build.distributions, name) =>
            resolve_build_tags(name, build.distributions)
                = [error |-> "CircularInheritance", tags |-> <<>>]
    /\ ( /\ build.tool # ""
         /\ build.distribution \in DOMAIN build.distributions
         /\ ~Acyclic(build.distributions, build.distribution) )
       => /\ BuildFailed
          /\ build.build_tags = <<>>
          /\ build.resolved_as = NoName

\* A local-build run has failed on a distribution whose chain is a cycle of
\* two names, in a table whose 'default' resolves.
C17_CycleOfTwo ==
    /\ build.tool = "local-build"
    /\ build.pc = "failed"
    /\ build.error = "CircularInheritance"
    /\ build.distribution \in DOMAIN build.distributions
    /\ build.distributions[build.distribution].base # build.distribution
    /\ Ancestor(build.distributions, build.distribution, 2)
            = build.distribution
    /\ "default" \in DOMAIN build.distributions
    /\ Acyclic(build.distributions, "default")

\* C18: resolve of a name that is no key of the table fails with
\* DistributionNotFound; get_release_info run on such a name resolves
\* 'default' instead and ends well with default's tags if 'default'
\* resolves, and exits non-zero if it does not; run on a name whose chain is
\* a cycle it exits non-zero and resolves nothing else.
C18_FallbackToDefault ==
    /\ \A name \in (TableNames \cup {S_unknown}) \ DOMAIN build.distributions :
         resolve_build_tags(name, build.distributions).error
            = "DistributionNotFound"
    /\ ( /\ build.tool = "get_release_info"
         /\ build.distribution \notin DOMAIN build.distributions )
       => LET fallback == resolve_build_tags("default", build.distributions)
          IN  IF fallback.error = ""
              THEN /\ build.pc = "resolved"
                   /\ build.resolved_as = "default"
                   /\ build.build_tags = fallback.tags
              ELSE BuildFailed
    /\ ( /\ build.tool = "get_release_info"
         /\ build.distribution \in DOMAIN build.distributions
         /\ ~Acyclic(build.distributions, build.distribution) )
       => BuildFailed /\ build.resolved_as = NoName

\* ---------------------------------------------------------- dependencies

\* The Go modules a dependency table may name.
ModuleNames == <<"m1", "m2", "m3">>
MaxModules == 2

\* The value of one entry of the table: a list of modules, one module as a
\* string, or a value that is neither (mods is then empty).
ModuleValues ==
    {[kind |-> "list", mods |-> [i \in 1..k |-> ModuleNames[i]]] : k \in 1..MaxModules}
    \cup {[kind |-> "str", mods |-> <<ModuleNames[k]>>] : k \in 1..MaxModules}
    \cup {[kind |-> "other", mods |-> <<>>]}

\* The tags a dependency table may have as keys.
DepTags == {T_clickhouse, T_otlp, T_custom}

\* The dependency tables; the one with no entry is also what
\* load_component_dependencies returns for a missing or invalid file.
DependencyMappings == UNION {[D -> ModuleValues] : D \in SUBSET DepTags}

\* The values of BUILD_TAGS_STRING: the tags between its commas, in a fixed
\* order; the empty string is one empty tag.
AllTags == <<T_all, T_exporter_all, T_clickhouse, T_otlp, T_custom>>

TagStrings ==
    {IF S = {} THEN <<EmptyTag>> ELSE SelectSeq(AllTags, LAMBDA t : t \in S) : S \in SUBSET Range(AllTags)}

\* [tag for tag in build_tags_string.split(",") if tag]
SplitTags(build_tags_string) ==
    SelectSeq(build_tags_string, LAMBDA t : t # EmptyTag)

\* tag.endswith(".all")
EndsWithAll(tag) == Len(tag) >= 2 /\ tag[Len(tag)] = "all"

\* tag.rsplit(".", 1)[0] + ".", as the segments before the last dot
PrefixOf(tag) == SubSeq(tag, 1, Len(tag) - 1)

\* dep_tag.startswith(prefix), the prefix ending in a dot
StartsWith(dep_tag, prefix) ==
    /\ Len(dep_tag) > Len(prefix)
    /\ SubSeq(dep_tag, 1, Len(prefix)) = prefix

has_global_all(active_build_tags) == T_all \in Range(active_build_tags)

all_subgroup_prefixes(active_build_tags) ==
    {PrefixOf(tag) : tag \in {t \in Range(active_build_tags) : EndsWithAll(t) /\ t # T_all}}

\* Mutations of should_include: the direct match alone; and the subgroup
\* match in place of the others whenever a subgroup tag is active.
should_include_direct(dep_tag, active_build_tags) ==
    dep_tag \in Range(active_build_tags)

should_include_subgroup_first(dep_tag, active_build_tags) ==
    IF all_subgroup_prefixes(active_build_tags) # {}
    THEN \E prefix \in all_subgroup_prefixes(active_build_tags) :
            StartsWith(dep_tag, prefix)
    ELSE \/ dep_tag \in Range(active_build_tags)
         \/ has_global_all(active_build_tags)

\* should_include at the end of one turn of the loop over the table.
should_include(dep_tag, active_build_tags) ==
    IF dep_tag \in Range(active_build_tags) THEN TRUE
    ELSE IF has_global_all(active_build_tags) THEN TRUE
    ELSE \E prefix \in all_subgroup_prefixes(active_build_tags) :
            StartsWith(dep_tag, prefix)

\* What one included entry adds to modules_to_get.
ModulesOf(modules) ==
    IF modules.kind \in {"list", "str"} THEN Range(modules.mods) ELSE {}

modules_to_get(active_build_tags, dependency_mappings) ==
    UNION {ModulesOf(dependency_mappings[dep_tag]) : dep_tag \in {d \in DOMAIN dependency_mappings : should_include(d, active_build_tags)}}

\* The build before build_extension_layer.py has run.
DepsStart(upstream_version, build_tags_string, dependency_mappings) ==
    [pc |-> "start", upstream_version |-> upstream_version,
     build_tags_string |-> build_tags_string,
     dependency_mappings |-> dependency_mappings,
     active_build_tags |-> <<>>, modules_to_get |-> {}, go_get |-> {},
     go_get_calls |-> 0, exit_code |-> -1]

\* main() of build_extension_layer.py up to the end of add_dependencies:
\* without UPSTREAM_VERSION it exits 1; else the tags are split, the modules
\* worked out, and go get is run once for each of them (main goes on
\* whatever go get answers).
AddDependencies ==
    /\ build.pc = "start"
    /\ build' =
        IF build.upstream_version = ""
        THEN [build EXCEPT !.pc = "failed", !.exit_code = 1]
        ELSE LET active == SplitTags(build.build_tags_string)
                 modules == IF DOMAIN build.dependency_mappings = {} THEN {}
                            ELSE modules_to_get(active,
                                                build.dependency_mappings)
             IN  [build EXCEPT !.pc = "dependencies_added",
                               !.active_build_tags = active,
                               !.modules_to_get = modules,
                               !.go_get = modules,
                               !.go_get_calls = Cardinality(modules)]
    /\ UNCHANGED <<revision, registry, table, proc, nruns, faults>>

InitDeps ==
    /\ revision = "tools"
    /\ registry = <<>>
    /\ table = {}
    /\ proc = [p \in Procs |-> Idle]
    /\ nruns = 0
    /\ faults = 0
    /\ \E upstream_version \in {"", "v0.119.0"} :
         \E build_tags_string \in TagStrings :
            \E dependency_mappings \in DependencyMappings :
               build = DepsStart(upstream_version, build_tags_string,
                                 dependency_mappings)

NextDeps == AddDependencies

SpecDeps == InitDeps /\ [][NextDeps]_vars

\* The modules of the entries that a set of tags selects: the entry's tag is
\* one of the tags, or 'lambdacomponents.all' is, or one of the tags other
\* than that is '<prefix>.all' and the entry's tag starts with '<prefix>.'.
Selected(tags, dependency_mappings) ==
    {m \in Range(ModuleNames) :
        \E d \in DOMAIN dependency_mappings :
            /\ m \in Range(dependency_mappings[d].mods)
            /\ \/ d \in tags
               \/ T_all \in tags
               \/ \E t \in tags \ {T_all} :
                    /\ Len(t) >= 2
                    /\ t[Len(t)] = "all"
                    /\ Len(d) >= Len(t)
                    /\ \A i \in 1..(Len(t) - 1) : d[i] = t[i]}

\* C19: add_dependencies works out exactly the modules of the entries that
\* the active tags select, runs go get once for each of them and for no
\* other, and with an empty table works out nothing, runs nothing and ends
\* without error.
C19_ModulesToGet ==
    build.pc = "dependencies_added" =>
        /\ build.modules_to_get
              = Selected(Range(build.active_build_tags),
                         build.dependency_mappings)
        /\ build.go_get = build.modules_to_get
        /\ build.go_get_calls = Cardinality(build.modules_to_get)
        /\ build.exit_code = -1
        /\ DOMAIN build.dependency_mappings = {} =>
              build.modules_to_get = {} /\ build.go_get_calls = 0

\* A run in which an entry of the active subgroup and an entry matched by
\* its own tag name the same module, and a third entry is matched by no
\* tag: the module is fetched once and the third entry adds nothing.
C19_TwoRulesOneModule ==
    /\ build.pc = "dependencies_added"
    /\ build.active_build_tags = <<T_exporter_all, T_otlp>>
    /\ DOMAIN build.dependency_mappings = DepTags
    /\ build.dependency_mappings[T_clickhouse].mods = <<"m1">>
    /\ build.dependency_mappings[T_otlp].mods = <<"m1", "m2">>
    /\ build.dependency_mappings[T_custom].kind = "str"
    /\ build.modules_to_get = {"m1", "m2"}
    /\ build.go_get_calls = 2

\* C20: for every dependency table and all tag lists T and T' with every
\* tag of T in T', every module worked out for T is worked out for T' (T
\* and the table are those of the run, T' is any tag list).
C20_Monotonic ==
    build.pc = "dependencies_added" =>
        \A s2 \in TagStrings :
            Range(build.active_build_tags) \subseteq Range(SplitTags(s2)) =>
                build.modules_to_get
                    \subseteq modules_to_get(SplitTags(s2),
                                             build.dependency_mappings)

\* A run whose tags select some modules, with a longer tag list that
\* selects more.
C20_MoreTagsMoreModules ==
    /\ build.pc = "dependencies_added"
    /\ build.modules_to_get # {}
    /\ \E s2 \in TagStrings :
         /\ Range(build.active_build_tags) \subseteq Range(SplitTags(s2))
         /\ Range(build.active_build_tags) # Range(SplitTags(s2))
         /\ modules_to_get(SplitTags(s2), build.dependency_mappings)
               # build.modules_to_get

\* ------------------------------------------------- build_extension_layer

T_lc_custom == <<"lambdacomponents", "custom">>
T_batch == <<"lambdacomponents", "processor", "batch">>

\* The build tags of a distribution, as the older revision's get_build_tags
\* has them; the newer revision reads the same string from
\* BUILD_TAGS_STRING.
get_build_tags(distribution) ==
    IF distribution = "clickhouse"
    THEN <<T_lc_custom, T_otlp, T_batch, T_clickhouse>>
    ELSE <<EmptyTag>>

\* What is found at config/component_dependencies.yaml: no file, a file
\* that is no YAML, YAML without a 'dependencies' dictionary, or a table.
ConfigFiles == {"missing", "unparseable", "no_dependencies", "ok"}

\* The tables of the file: none or some modules for the clickhouse exporter.
BuildTables ==
    {[d \in {} |-> [kind |-> "other", mods |-> <<>>]]}
    \cup {[d \in {T_clickhouse} |-> [kind |-> "list", mods |-> [i \in 1..k |-> ModuleNames[i]]]] : k \in 1..MaxModules}

\* load_component_dependencies: every failure gives the empty dictionary.
load_component_dependencies(config, dependencies) ==
    IF config = "ok" THEN dependencies
    ELSE [d \in {} |-> [kind |-> "other", mods |-> <<>>]]

\* The build before main() has run.
MainStart(keep_temp, upstream_version, distribution, config, dependencies) ==
    [pc |-> "start", keep_temp |-> keep_temp,
     upstream_version |-> upstream_version, distribution |-> distribution,
     config |-> config, dependencies |-> dependencies,
     build_tags_string |-> <<>>, active_build_tags |-> <<>>,
     dependency_mappings |-> [d \in {} |-> [kind |-> "other", mods |-> <<>>]],
     temp_dir |-> "none", clone_calls |-> 0, make_calls |-> 0,
     modules_to_get |-> {}, pending |-> {}, go_get_log |-> <<>>,
     added_any |-> FALSE, tidy_calls |-> 0, tidy_after |-> 0,
     failed_fetches |-> {}, unexpected |-> FALSE, cause |-> "",
     exit_code |-> -1]

\* The finally clause of main(): the temporary directory is removed unless
\* --keep-temp was given.
Finally_on_success(b) ==
    IF ~b.keep_temp /\ b.exit_code = 0
    THEN [b EXCEPT !.temp_dir = "removed"] ELSE b

Finally(b) ==
    IF ~b.keep_temp THEN [b EXCEPT !.temp_dir = "removed"] ELSE b

\* main() ends inside its try block: sys.exit(1) or an exception caught by
\* one of its except clauses, or the end of the block, then the finally
\* clause.
Leave(b, code, cause) ==
    Finally([b EXCEPT !.pc = "exited", !.exit_code = code, !.cause = cause])

BuildUnchanged == UNCHANGED <<revision, registry, table, proc, nruns, faults>>

\* main() up to the creation of the temporary directory.  The newer
\* revision ends with 1 if UPSTREAM_VERSION is not set, and loads the
\* dependency file.
Setup ==
    /\ build.pc = "start"
    /\ build' =
        IF revision = "tools" /\ build.upstream_version = ""
        THEN [build EXCEPT !.pc = "exited", !.exit_code = 1,
                           !.cause = "upstream_version"]
        ELSE [build EXCEPT
                !.pc = "clone",
                !.build_tags_string = get_build_tags(build.distribution),
                !.active_build_tags =
                    SplitTags(get_build_tags(build.distribution)),
                !.dependency_mappings =
                    IF revision = "tools"
                    THEN load_component_dependencies(build.config,
                                                     build.dependencies)
                    ELSE @,
                !.temp_dir = "exists"]
    /\ BuildUnchanged

\* git clone, then the overlay of the components and the test for the
\* collector directory.
Clone ==
    /\ build.pc = "clone"
    /\ \E answer \in {"ok", "clone_failed", "no_collector_dir", "exception"} :
         LET b == [build EXCEPT !.clone_calls = @ + 1]
         IN  build' =
               IF answer = "ok" THEN [b EXCEPT !.pc = "deps"]
               ELSE Leave([b EXCEPT !.unexpected = (answer = "exception")],
                          1, answer)
    /\ BuildUnchanged

\* The start of add_dependencies: which modules to get.  The older revision
\* knows one module, wanted when the clickhouse exporter tag is in the
\* build tags.
StartDependencies ==
    /\ build.pc = "deps"
    /\ LET modules ==
             IF revision = "tools"
             THEN IF DOMAIN build.dependency_mappings = {} THEN {}
                  ELSE modules_to_get(build.active_build_tags,
                                      build.dependency_mappings)
             ELSE IF T_clickhouse \in Range(build.active_build_tags)
                  THEN {ModuleNames[1]} ELSE {}
       IN  build' = [build EXCEPT !.modules_to_get = modules,
                                  !.pending = modules,
                                  !.pc = IF modules = {} THEN "make"
                                         ELSE "go_get"]
    /\ BuildUnchanged

\* A mutation of AfterModule: go mod tidy whatever the fetches answered.
AfterModule_always_tidy(b) ==
    IF b.pending # {} THEN b ELSE [b EXCEPT !.pc = "tidy"]

\* The next state of the newer revision's loop after the module was
\* attempted: go mod tidy is due if a fetch succeeded.
AfterModule(b) ==
    IF b.pending # {} THEN b
    ELSE [b EXCEPT !.pc = IF b.added_any THEN "tidy" ELSE "make"]

\* One turn of the loop over modules_to_get (a set: any order): go get with
\* the version, and if that fails go get without it.  An exception that is
\* no CalledProcessError (no go binary) ends the program.  In the older
\* revision a failed go get ends the program.
GoGet ==
    /\ build.pc = "go_get"
    /\ \E m \in build.pending :
         \E answer \in (IF revision = "tools" THEN {"pinned_ok", "fallback_ok", "both_failed", "exception"} ELSE {"pinned_ok", "both_failed", "exception"}) :
            LET calls == IF answer \in {"pinned_ok", "exception"}
                            \/ revision = "scripts"
                         THEN <<<<m, "pinned">>>>
                         ELSE <<<<m, "pinned">>, <<m, "unpinned">>>>
                b == [build EXCEPT !.pending = @ \ {m},
                                   !.go_get_log = @ \o calls]
            IN  build' =
                  IF answer = "exception"
                  THEN Leave([b EXCEPT !.unexpected = TRUE], 1, "exception")
                  ELSE IF revision = "scripts"
                  THEN IF answer = "pinned_ok"
                       THEN [b EXCEPT !.added_any = TRUE, !.pc = "tidy"]
                       ELSE Leave(b, 1, "go_get_failed")
                  ELSE IF answer = "both_failed"
                  THEN AfterModule([b EXCEPT !.failed_fetches = @ \cup {m}])
                  ELSE AfterModule([b EXCEPT !.added_any = TRUE])
    /\ BuildUnchanged

\* go mod tidy: the newer revision goes on whatever it answers, the older
\* one ends the program if it fails.
GoModTidy ==
    /\ build.pc = "tidy"
    /\ \E answer \in {"ok", "failed"} :
         LET b == [build EXCEPT !.tidy_calls = @ + 1,
                                !.tidy_after = Len(build.go_get_log)]
         IN  build' =
               IF answer = "failed" /\ revision = "scripts"
               THEN Leave(b, 1, "tidy_failed")
               ELSE [b EXCEPT !.pc = "make"]
    /\ BuildUnchanged

\* The rest of main(): the Makefile, make package, the build output, its
\* renaming and the copy to the output directory.
Make ==
    /\ build.pc = "make"
    /\ \E answer \in {"ok", "no_makefile", "make_failed", "no_output", "rename_failed", "exception"} :
         LET b == [build EXCEPT !.make_calls =
                        IF answer = "no_makefile" THEN @ ELSE @ + 1]
         IN  build' =
               IF answer = "ok" THEN Leave(b, 0, "")
               ELSE Leave([b EXCEPT !.unexpected = (answer = "exception")],
                          1, answer)
    /\ BuildUnchanged

InitBuild ==
    /\ revision \in {"tools", "scripts"}
    /\ registry = <<>>
    /\ table = {}
    /\ proc = [p \in Procs |-> Idle]
    /\ nruns = 0
    /\ faults = 0
    /\ \E keep_temp \in BOOLEAN, upstream_version \in {"", "v0.119.0"} :
         \E distribution \in {"default", "clickhouse"} :
            \E config \in ConfigFiles, dependencies \in BuildTables :
               /\ config # "ok" => DOMAIN dependencies = {}
               /\ build = MainStart(keep_temp, upstream_version,
                                    distribution, config, dependencies)

NextBuild ==
    \/ Setup
    \/ Clone
    \/ StartDependencies
    \/ GoGet
    \/ GoModTidy
    \/ Make

SpecBuild == InitBuild /\ [][NextBuild]_vars

\* C21: a run of the newer builder that finds a dependency file it cannot
\* parse, or one without a 'dependencies' dictionary, exits non-zero at
\* once: it clones nothing, fetches nothing and builds nothing.
C21_MalformedTableFatal ==
    ( /\ revision = "tools"
      /\ build.config \in {"unparseable", "no_dependencies"}
      /\ build.pc # "start" )
    => /\ build.pc = "exited"
       /\ build.exit_code = 1
       /\ build.clone_calls = 0
       /\ build.go_get_log = <<>>
       /\ build.make_calls = 0

\* The number of go get calls of one kind made for module m.
GoGetCalls(m, kind) ==
    Cardinality({i \in 1..Len(build.go_get_log) : build.go_get_log[i] = <<m, kind>>})

\* The loop over the modules has ended.
LoopOver == build.pending = {} /\ build.pc \in {"tidy", "make", "exited"}

\* C22: in a run of the newer builder in which no command raised anything
\* but a failed exit status, each module gets one go get with the version
\* and, only if that failed, one without, next to it; once the loop is over
\* every module of the set has been attempted, also after modules whose
\* two fetches failed; a failed fetch or a failed go mod tidy never ends
\* the run; and go mod tidy runs at most once, after every attempt, and
\* exactly when some fetch succeeded.
C22_SoftFetchFailures ==
    (revision = "tools" /\ ~build.unexpected) =>
        /\ \A m \in build.modules_to_get :
             /\ GoGetCalls(m, "pinned") = (IF m \in build.pending THEN 0 ELSE 1)
             /\ GoGetCalls(m, "unpinned") <= 1
             /\ m \in build.failed_fetches => GoGetCalls(m, "unpinned") = 1
             /\ \A i \in 1..Len(build.go_get_log) :
                  build.go_get_log[i] = <<m, "unpinned">> =>
                     i > 1 /\ build.go_get_log[i - 1] = <<m, "pinned">>
        /\ \A i \in 1..Len(build.go_get_log) :
             build.go_get_log[i][1] \in build.modules_to_get
        /\ (build.pc \in {"tidy", "make"}
              \/ (build.pc = "exited" /\ build.make_calls > 0))
            => build.pending = {}
        /\ build.pc = "exited" =>
              build.cause \notin {"go_get_failed", "tidy_failed", "exception"}
        /\ build.pc = "go_get" => build.exit_code = -1
        /\ build.tidy_calls <= 1
        /\ build.tidy_calls = 1 =>
              /\ build.added_any
              /\ build.pending = {}
              /\ build.tidy_after = Len(build.go_get_log)
        /\ (LoopOver /\ build.pc # "tidy") =>
              build.tidy_calls = (IF build.added_any THEN 1 ELSE 0)
        /\ (LoopOver /\ build.failed_fetches = build.modules_to_get) =>
              build.tidy_calls = 0

\* A run of the newer builder that ended well although both fetches of the
\* first of its two modules failed: the second was fetched and go mod tidy
\* ran once.
C22_FirstModuleFailed ==
    /\ revision = "tools"
    /\ build.pc = "exited"
    /\ build.exit_code = 0
    /\ Cardinality(build.modules_to_get) = 2
    /\ Len(build.go_get_log) >= 3
    /\ build.go_get_log[1][1] \in build.failed_fetches
    /\ build.added_any
    /\ build.tidy_calls = 1

\* C29: in both revisions, once main() has created its temporary directory
\* and ended, on whatever path, the directory is gone unless --keep-temp was
\* given; with --keep-temp it is never removed.
C29_TempDirRemoved ==
    /\ (build.pc = "exited" /\ build.cause # "upstream_version") =>
          build.temp_dir = (IF build.keep_temp THEN "exists" ELSE "removed")
    /\ build.keep_temp => build.temp_dir # "removed"
    /\ build.temp_dir = "removed" => build.pc = "exited"
    /\ build.pc \notin {"start", "exited"} => build.temp_dir = "exists"

\* A run without --keep-temp whose make package failed has ended with its
\* temporary directory removed.
C29_RemovedAfterFailedMake ==
    /\ build.pc = "exited"
    /\ build.cause = "make_failed"
    /\ build.exit_code = 1
    /\ ~build.keep_temp
    /\ build.temp_dir = "removed"

\* ------------------------------------------------------------ layer names

S_collector == <<"c", "o", "l", "l", "e", "c", "t", "o", "r">>
S_clickhouse == <<"c", "l", "i", "c", "k", "h", "o", "u", "s", "e">>
S_cv119 == <<"v", "0", ".", "1", "1", "9", ".", "0">>
S_collector_name == <<"c", "o", "l", "l", "e", "c", "t", "o", "r", "-", "a", "m", "d", "6", "4", "-", "c", "l", "i", "c", "k", "h", "o", "u", "s", "e", "-", "0", "_", "1", "1", "9", "_", "0", "-", "p", "r", "o", "d">>
S__x == <<"_", "x">>
S_9a == <<"9", "a">>
S_v == <<"v">>
S_beta == <<"b", "e", "t", "a">>
S_ref_tag == <<"r", "e", "f", "s", "/", "t", "a", "g", "s", "/", "v", "0", ".", "3">>
S_ref_main == <<"r", "e", "f", "s", "/", "h", "e", "a", "d", "s", "/", "m", "a", "i", "n">>
S_0_3 == <<"0", "_", "3">>

\* The arguments construct_layer_name is given, and the values of
\* GITHUB_REF.
BaseNames == {S_otel, S_collector, S__x, S_9a}
Architectures == {None, S_amd64, S_arm64}
Distributions == {None, S_clickhouse}
Versions == {None, S_ver}
CollectorVersions == {None, S_cv119, S_v}
ReleaseGroups == {S_prod, S_beta}
GithubRefs == {None, S_ref_tag, S_ref_main}

\* The build before the publisher has named the layer.
NameStart(base_name, architecture, distribution, version, collector_version, release_group, github_ref) ==
    [pc |-> "start", base_name |-> base_name, architecture |-> architecture,
     distribution |-> distribution, version |-> version,
     collector_version |-> collector_version,
     release_group |-> release_group, github_ref |-> github_ref,
     layer_name |-> None, arch_str |-> None, layer_version_str |-> None]

\* One call of construct_layer_name.
ConstructLayerName ==
    /\ build.pc = "start"
    /\ LET r == construct_layer_name(revision, build.base_name,
                    build.architecture, build.distribution, build.version,
                    build.collector_version, build.release_group,
                    build.github_ref)
       IN  build' = [build EXCEPT !.pc = "named",
                                  !.layer_name = r.layer_name,
                                  !.arch_str = r.arch_str,
                                  !.layer_version_str = r.layer_version_str]
    /\ BuildUnchanged

InitName ==
    /\ revision \in {"tools", "scripts"}
    /\ registry = <<>>
    /\ table = {}
    /\ proc = [p \in Procs |-> Idle]
    /\ nruns = 0
    /\ faults = 0
    /\ \E base_name \in BaseNames, architecture \in Architectures :
         \E distribution \in Distributions, version \in Versions :
            \E collector_version \in CollectorVersions :
               \E release_group \in ReleaseGroups, github_ref \in GithubRefs :
                  build = NameStart(base_name, architecture, distribution,
                                    version, collector_version,
                                    release_group, github_ref)

NextName == ConstructLayerName

SpecName == InitName /\ [][NextName]_vars

\* s matches ^[a-zA-Z][a-zA-Z0-9_-]*$
MatchesNamePattern(s) ==
    /\ Len(s) >= 1
    /\ s[1] \in Lower \cup Upper
    /\ \A i \in 1..Len(s) : s[i] \in NameChars

\* C23: the name construct_layer_name returns is the same whatever else
\* holds when its six arguments are the same, and it matches
\* ^[a-zA-Z][a-zA-Z0-9_-]*$.
C23_NamePureAndValid ==
    build.pc = "named" =>
        /\ MatchesNamePattern(build.layer_name)
        /\ \A github_ref \in GithubRefs :
             construct_layer_name(revision, build.base_name,
                 build.architecture, build.distribution, build.version,
                 build.collector_version, build.release_group,
                 github_ref).layer_name = build.layer_name

\* The final cleanup of a name: disallowed characters replaced, 'layer-' put
\* before a leading digit.
CleanName(s) ==
    IF Len(s) > 0 /\ Sanitize(s)[1] \in Digits
    THEN S_layer_ \o Sanitize(s) ELSE Sanitize(s)

\* C24: the name is the base name, then '-<arch>' if an architecture is
\* given, then '-<distribution>' if one is given, then '-<version token>',
\* then '-<release group>', in this order (after the final cleanup);
\* ('collector', 'amd64', 'clickhouse', none, 'v0.119.0', 'prod') gives
\* 'collector-amd64-clickhouse-0_119_0-prod'.
C24_NameOrder ==
    /\ \A rev \in {"tools", "scripts"}, github_ref \in GithubRefs :
         construct_layer_name(rev, S_collector, S_amd64, S_clickhouse, None,
             S_cv119, S_prod, github_ref).layer_name = S_collector_name
    /\ build.pc = "named" =>
         build.layer_name =
            CleanName(build.base_name
                      \o (IF build.architecture # None
                          THEN <<"-">> \o build.architecture ELSE <<>>)
                      \o (IF build.distribution # None
                          THEN <<"-">> \o build.distribution ELSE <<>>)
                      \o <<"-">> \o build.layer_version_str
                      \o <<"-">> \o build.release_group)

\* C25: the version token of the name is the explicit version if one is
\* given, else the collector version without its leading 'v' if one is
\* given, else what GITHUB_REF gives if it is set, else 'latest' (each with
\* the characters a name may not hold replaced); it is never empty.
C25_VersionPrecedence ==
    build.pc = "named" =>
        /\ build.layer_version_str # <<>>
        /\ build.layer_version_str =
             (IF build.version # None THEN Sanitize(build.version)
              ELSE IF build.collector_version # None
                   THEN Sanitize(StripV(build.collector_version))
              ELSE IF build.github_ref = S_ref_tag THEN S_0_3
              ELSE S_latest)

\* C26: the version a run has published is registered as compatible with
\* x86_64 if the run was given 'amd64', with arm64 if it was given 'arm64',
\* and with both x86_64 and arm64 if it was given no architecture.
C26_ArchitectureLabel ==
    \A p \in Procs :
        \A i \in 1..Len(registry) :
            ( /\ proc[p].published # None
              /\ registry[i].LayerVersionArn = proc[p].published )
            => Range(registry[i].CompatibleArchitectures)
                 = (IF proc[p].args.architecture = S_amd64 THEN {S_x86_64}
                    ELSE IF proc[p].args.architecture = S_arm64
                         THEN {S_arm64}
                    ELSE {S_x86_64, S_arm64})

\* ------------------------------------------------- query by distribution

QueryRuns == 3
PageSize == 2

\* The command lines of SpecQuery: two distributions, two architectures.
ArgsQuery ==
    [layer_name : {S_otel}, artifact_name : {"A"}, region : {S_region},
     architecture : {S_amd64, S_arm64}, runtimes : {None},
     release_group : {S_prod}, layer_version : {None},
     distribution : {S_default, S_clickhouse}, collector_version : {S_cv},
     public : {FALSE}, build_tags : {S_tags}, github_ref : {None}]

\* deserialize_item: a set becomes a sorted list (the string sets of the
\* model are kept in order), a Decimal a number; the rest is left as it is.
deserialize_item(item) ==
    IF item.compatible_runtimes # None /\ item.compatible_runtimes[1] = "SS"
    THEN [item EXCEPT !.compatible_runtimes = <<"L", @[2]>>]
    ELSE item

\* Some n elements of a set (all of them if it has no more), in some order.
RECURSIVE SomeOf(_, _)
SomeOf(set, n) ==
    IF n = 0 \/ set = {} THEN <<>>
    ELSE LET x == CHOOSE y \in set : TRUE
         IN  <<x>> \o SomeOf(set \ {x}, n - 1)

\* table.query on the index sk-pk-index: up to `size` of the matching items
\* not yet returned, with a LastEvaluatedKey when the page is full.
Query(matching, size) ==
    LET page == SomeOf(matching, size)
    IN  [Items |-> page, LastEvaluatedKey |-> Len(page) = size]

\* The loop of query_by_distribution: one query for each page, until a
\* response comes without LastEvaluatedKey.
RECURSIVE QueryLoop(_, _, _, _)
QueryLoop(matching, size, items, calls) ==
    LET response == Query(matching, size)
        got == items \o [i \in 1..Len(response.Items) |->
                            deserialize_item(response.Items[i])]
    IN  IF response.LastEvaluatedKey
        THEN QueryLoop(matching \ Range(response.Items), size, got,
                       calls + 1)
        ELSE [items |-> got, calls |-> calls + 1]

\* A mutation of query_by_distribution: the first page only.
query_by_distribution_first_page(tbl, distribution, size) ==
    LET response == Query({i \in tbl : i.sk = distribution}, size)
    IN  [items |-> [i \in 1..Len(response.Items) |->
                        deserialize_item(response.Items[i])],
         calls |-> 1]

query_by_distribution(tbl, distribution, size) ==
    QueryLoop({i \in tbl : i.sk = distribution}, size, <<>>, 0)

\* A report, made between two runs of the publisher, asks for the records
\* of one distribution; the store answers in pages of up to PageSize items.
QueryByDistribution ==
    /\ Quiet
    /\ \E distribution \in {S_default, S_clickhouse}, size \in 1..PageSize :
         LET r == query_by_distribution(table, distribution, size)
         IN  build' = [pc |-> "queried", distribution |-> distribution,
                       page_size |-> size, items |-> r.items,
                       query_calls |-> r.calls]
    /\ BuildUnchanged

\* The boto3 revision, to which query_by_distribution belongs; the registry
\* and the store answer every call of the runs without error.
InitQuery ==
    /\ revision = "tools"
    /\ registry = <<>>
    /\ table = {}
    /\ proc = [p \in Procs |-> Idle]
    /\ nruns = 0
    /\ faults = MaxFaults
    /\ build = NoBuild

\* Up to QueryRuns invocations, one after the other, and queries between
\* them.
\* These runs ask for no public access, and the boto3 revision never takes
\* the repair branch: the steps left are the publish, the write and the
\* lookup.
NextQuery ==
    \/ \E p \in Procs :
         \/ nruns < QueryRuns /\ Quiet /\ \E a \in ArgsQuery : Start(p, a)
         \/ PublishLayer(p)
         \/ WriteMetadata(p)
         \/ GetItem(p)
    \/ QueryByDistribution

SpecQuery == InitQuery /\ [][NextQuery]_vars

\* C27: query_by_distribution(D) returns, each once, exactly the records of
\* the store whose secondary key is D, whatever the size of the pages;
\* among them is the record of every run for D whose metadata write
\* succeeded (new version or repair, any architecture), and none has another
\* distribution.
C27_QueryByDistribution ==
    [][ (build'.pc = "queried" /\ build' # build) =>
          /\ Range(build'.items)
                = {deserialize_item(i) : i \in {j \in table : j.sk = build'.distribution}}
          /\ Len(build'.items) = Cardinality(Range(build'.items))
          /\ \A i \in 1..Len(build'.items) :
                build'.items[i].distribution = build'.distribution
          /\ \A p \in Procs :
                ( /\ proc[p].pc = "done"
                  /\ proc[p].dynamo_success
                  /\ proc[p].args.distribution = build'.distribution )
                => \E i \in 1..Len(build'.items) :
                      /\ build'.items[i].layer_arn = proc[p].layer_arn
                      /\ build'.items[i].architecture
                            = proc[p].args.architecture
      ]_vars

\* A query has returned the two records of one distribution in two pages or
\* more, from a store that also holds a record of the other distribution.
C27_TwoRecordsInPages ==
    /\ build.pc = "queried"
    /\ Len(build.items) = 2
    /\ build.query_calls >= 2
    /\ build.items[1].architecture # build.items[2].architecture
    /\ \E i \in table : i.sk # build.distribution
    /\ Range(build.items) = {i \in table : i.sk = build.distribution}

\* ------------------------------------------------------- final identity

\* The places of the layer_arn output among the outputs of a run.
ArnOutputs(me) ==
    {k \in 1..Len(me.outputs) : me.outputs[k][1] = "layer_arn"}

\* C28: a run that has ended with code 0 has written the summary and one
\* layer_arn output, whose value is not empty and is either the version
\* this run published or, if the run skipped the publish, a version of the
\* registry whose description holds the artifact's hash; it is never the
\* non-matching version check_layer_exists handed back.
C28_FinalIdentity ==
    \A p \in Procs :
        proc[p].pc = "done" =>
            /\ proc[p].exit_code = 0
            /\ proc[p].summary
            /\ Cardinality(ArnOutputs(proc[p])) = 1
            /\ \A k \in ArnOutputs(proc[p]) :
                 LET arn == proc[p].outputs[k][2]
                 IN  /\ Truthy(arn)
                     /\ arn = proc[p].layer_arn
                     /\ IF proc[p].skip_publish
                        THEN /\ proc[p].publish_calls = 0
                             /\ VersionIndex(registry, arn) # 0
                             /\ Contains(registry[VersionIndex(registry, arn)].Description,
                                         proc[p].md5_hash)
                        ELSE /\ proc[p].publish_calls = 1
                             /\ arn = proc[p].published
                             /\ arn # proc[p].existing_layer_arn

\* A run that found only a version with another hash has published and
\* ended: its layer_arn output is the new version, not the one found.
C28_FallbackNotEmitted ==
    \E p \in Procs :
        /\ proc[p].pc = "done"
        /\ ~proc[p].skip_publish
        /\ Truthy(proc[p].existing_layer_arn)
        /\ proc[p].published # None
        /\ <<"layer_arn", proc[p].published>> \in Range(proc[p].outputs)

\* --------------------------------------------------------- delete-layers

\* The most layers a search matches, and the most versions one of them has.
MaxLayers == 2
MaxVersions == 2

\* What find_matching_layers can hand back: a list of layers, a layer
\* being known here by the number of its versions, which are numbered from
\* one.  The list is empty when no name matches, when the credentials are
\* missing or when every region's search failed; a layer may have no
\* version.
MatchingLayers ==
    UNION {[1..n -> 0..MaxVersions] : n \in 0..MaxLayers}

\* What the operator can type at the prompt.
Confirmations == {"DELETE", "delete", "DELETE ", "", "yes"}

RECURSIVE TotalVersions(_)
\* sum(len(layer['Versions']) for layer in layers)
TotalVersions(layers) ==
    IF layers = <<>> THEN 0
    ELSE Head(layers) + TotalVersions(Tail(layers))

\* The versions a search found, as <<layer, version>> pairs.
FoundVersions(layers) ==
    {lv \in (1..Len(layers)) \X (1..MaxVersions) : lv[2] <= layers[lv[1]]}

\* confirm_deletion with the prompt's answer ignored once a layer matched.
confirm_deletion_any_answer(layers, force, confirmation) ==
    force \/ layers # <<>>

\* confirm_deletion: true with --force; false, without a prompt, when
\* nothing matched; otherwise whether the line typed is exactly DELETE.
confirm_deletion(layers, force, confirmation) ==
    IF force THEN TRUE
    ELSE IF layers = <<>> THEN FALSE
    ELSE confirmation = "DELETE"

\* The state of one invocation of delete-layers.py.
DeleteStart(dry_run, force) ==
    [pc |-> "main", dry_run |-> dry_run, force |-> force,
     matching_layers |-> <<>>, prompted |-> FALSE, confirmation |-> "",
     confirmed |-> "uncalled", layer |-> 0, version |-> 0,
     client_calls |-> 0, delete_calls |-> <<>>, deleted |-> {},
     success_count |-> 0, failure_count |-> 0, exit_code |-> -1]

\* The loop of delete_layers moves on from layer l: to the client of the
\* next layer, or to the return when the list is through.
AfterLayer(b, l) ==
    IF l < Len(b.matching_layers)
    THEN [b EXCEPT !.pc = "client", !.layer = l + 1, !.version = 0]
    ELSE [b EXCEPT !.pc = "done", !.layer = l, !.version = 0,
                   !.exit_code = 0]

\* The inner loop moves on from version v of the layer at hand.
AfterVersion(b, v) ==
    IF v < b.matching_layers[b.layer]
    THEN [b EXCEPT !.pc = "delete_layer_version", !.version = v + 1]
    ELSE AfterLayer(b, b.layer)

\* delete_layers up to its first call: nothing to do for an empty list,
\* and in a dry run every version is counted as a success and no client is
\* made; otherwise the loop starts with the first layer.
EnterDeleteLayers(b) ==
    IF b.matching_layers = <<>>
    THEN [b EXCEPT !.pc = "done", !.exit_code = 0]
    ELSE IF b.dry_run
    THEN [b EXCEPT !.pc = "done", !.exit_code = 0,
                   !.success_count = TotalVersions(b.matching_layers)]
    ELSE AfterLayer(b, 0)

\* main up to the prompt: the search and the summary; a dry run asks for
\* no confirmation and goes to delete_layers at once.
FindMatchingLayers ==
    /\ build.pc = "main"
    /\ \E layers \in MatchingLayers :
         LET b == [build EXCEPT !.matching_layers = layers]
         IN  build' = IF b.dry_run THEN EnterDeleteLayers(b)
                      ELSE [b EXCEPT !.pc = "confirm_deletion"]
    /\ BuildUnchanged

\* The call of confirm_deletion and what main does with its answer: the
\* prompt is shown only without --force and with a layer matched; a false
\* answer ends the program with "Deletion cancelled.", and an interrupt at
\* the prompt ends it with code 1.
ConfirmDeletion ==
    /\ build.pc = "confirm_deletion"
    /\ LET prompt == ~build.force /\ build.matching_layers # <<>>
       IN  \/ \E confirmation \in (IF prompt THEN Confirmations ELSE {""}) :
                LET b == [build EXCEPT !.prompted = prompt,
                                       !.confirmation = confirmation]
                IN  build' =
                      IF confirm_deletion(b.matching_layers, b.force, confirmation)
                      THEN EnterDeleteLayers([b EXCEPT !.confirmed = "true"])
                      ELSE [b EXCEPT !.confirmed = "false", !.pc = "done",
                                     !.exit_code = 0]
           \/ /\ prompt
              /\ build' = [build EXCEPT !.prompted = TRUE,
                                        !.confirmed = "interrupted",
                                        !.pc = "done", !.exit_code = 1]
    /\ BuildUnchanged

\* boto3.client for the region of the layer at hand: a ClientError counts
\* every version of the layer as a failure.
Boto3Client ==
    /\ build.pc = "client"
    /\ \E answer \in {"ok", "ClientError"} :
         LET b == [build EXCEPT !.client_calls = @ + 1]
         IN  build' = IF answer = "ok" THEN AfterVersion(b, 0)
                      ELSE AfterLayer([b EXCEPT !.failure_count =
                                          @ + b.matching_layers[b.layer]],
                                      b.layer)
    /\ BuildUnchanged

\* One delete_layer_version call: the version is gone and counted, or the
\* call raised ClientError and the failure is counted.
DeleteLayerVersion ==
    /\ build.pc = "delete_layer_version"
    /\ \E answer \in {"ok", "ClientError"} :
         LET lv == <<build.layer, build.version>>
             b == [build EXCEPT !.delete_calls = Append(@, lv)]
         IN  build' = IF answer = "ok"
                      THEN AfterVersion([b EXCEPT !.deleted = @ \cup {lv},
                                                  !.success_count = @ + 1],
                                        build.version)
                      ELSE AfterVersion([b EXCEPT !.failure_count = @ + 1],
                                        build.version)
    /\ BuildUnchanged

InitDelete ==
    /\ revision = "scripts"
    /\ registry = <<>>
    /\ table = {}
    /\ proc = [p \in Procs |-> Idle]
    /\ nruns = 0
    /\ faults = 0
    /\ \E dry_run \in BOOLEAN, force \in BOOLEAN :
         build = DeleteStart(dry_run, force)

NextDelete ==
    \/ FindMatchingLayers
    \/ ConfirmDeletion
    \/ Boto3Client
    \/ DeleteLayerVersion

SpecDelete == InitDelete /\ [][NextDelete]_vars

\* Whether the invocation was given leave to delete: no dry run, and
\* either --force or a layer matched and DELETE typed at the prompt.
LeaveToDelete(b) ==
    /\ ~b.dry_run
    /\ \/ b.force
       \/ /\ b.matching_layers # <<>>
          /\ b.prompted
          /\ b.confirmation = "DELETE"

\* C30: a dry run makes no client and no delete call; outside a dry run a
\* client or a delete call is made only after confirm_deletion returned
\* true, which it does exactly with --force or with a layer matched and
\* DELETE typed; every call names a version the search found, and an
\* invocation that ends without that leave has deleted nothing.
C30_DeleteOnlyConfirmed ==
    /\ build.dry_run =>
          /\ build.client_calls = 0
          /\ build.delete_calls = <<>>
          /\ build.confirmed = "uncalled"
          /\ ~build.prompted
    /\ (build.client_calls > 0 \/ build.delete_calls # <<>>) =>
          /\ build.confirmed = "true"
          /\ LeaveToDelete(build)
    /\ build.confirmed = "true" <=>
          (LeaveToDelete(build) /\ build.pc \notin {"main", "confirm_deletion"})
    /\ Range(build.delete_calls) \subseteq FoundVersions(build.matching_layers)
    /\ build.deleted \subseteq Range(build.delete_calls)
    /\ Cardinality(build.deleted) = build.success_count \/ build.dry_run
    /\ (build.pc = "done" /\ ~LeaveToDelete(build)) =>
          /\ build.deleted = {}
          /\ build.delete_calls = <<>>

\* Without --force the operator typed DELETE for two layers: versions of
\* both are gone, and one call failed.
C30_DeletedAfterTypedDelete ==
    /\ build.pc = "done"
    /\ ~build.dry_run
    /\ ~build.force
    /\ build.confirmation = "DELETE"
    /\ \E a, c \in build.deleted : a[1] # c[1]
    /\ build.failure_count > 0

====
